---- MODULE Spec2Model ----
(***************************************************************************)
(* HNSW index of dmarro89/hnsw-go: the node store, the entry point, the    *)
(* layer searches, Insert with its bidirectional linking and pruning, and  *)
(* KNN_Search, under the index's RWMutex; NewHNSW and RandomLevel; the     *)
(* distance cache; the heaps of package structs and their pool.            *)
(*                                                                         *)
(* Node ids are 0-based as in the Go code; the node with id i is stored at *)
(* slot i of h.Nodes, which is element i+1 of the sequence Nodes.  The     *)
(* neighbour list of a node at layer lc is element lc+1 of its Neighbors.  *)
(***************************************************************************)
EXTENDS Integers, Sequences, FiniteSets, TLC

VARIABLES
    Nodes,        \* h.Nodes: the node store
    EntryPoint,   \* h.EntryPoint: a node id, or NoNode for nil
    visitStamp,   \* h.visitStamp
    visited,      \* the visit-stamp array read and written by markVisited
    mutex,        \* h.mutex: [writer |-> BOOLEAN, readers |-> Nat]
    inserts,      \* the frames of the Insert calls that are past Lock()
    committed,    \* the index as the last Unlock() (or NewHNSW) left it
    lastInsert,   \* what the last completed Insert did
    lastQuery,    \* the last completed KNN_Search: its arguments and result
    memoQuery,    \* an earlier KNN_Search on the index as it is now, kept for comparison
    nQueries,     \* number of KNN_Search calls completed
    searches,     \* the frames of the KNN_Search calls that run step by step
    lastCall,     \* the last call made with unchecked arguments, and the index around it
    cacheArrays,         \* the backing arrays the distance cache has allocated, oldest first
    globalDistanceCache, \* h.globalDistanceCache.cache: the array in use, by its place in cacheArrays
    cacheCalls,          \* the frames of the computeAndCacheDistance calls that run step by step
    minHeap,             \* a MinHeap in the hands of its caller: its nodes
    maxHeap,             \* a MaxHeap in the hands of its caller: its nodes
    pushed,              \* per heap, how many times each item was pushed and not yet popped
    minHeapPool,         \* HeapPoolManager.minHeapPool: the heaps put back
    maxHeapPool,         \* HeapPoolManager.maxHeapPool: the heaps put back
    pooledSearch,        \* the frame of the searchLayer call that takes its objects from pools
    nodeHeapPool,        \* h.nodeHeapPool: the NodeHeap items made so far and those put back
    layerCall            \* the frame of the Insert or KNN_Search call whose layer searches run step by step

\* The distance cache and the heaps of package structs stand apart from the index.
cacheVars == <<cacheArrays, globalDistanceCache, cacheCalls>>

heapVars == <<minHeap, maxHeap, pushed, minHeapPool, maxHeapPool>>

\* The searchLayer that works on pooled objects has a frame and a pool of its own.
pooledVars == <<pooledSearch, nodeHeapPool>>

\* The call whose greedy and beam searches are followed move by move.
layerVars == <<layerCall>>

vars == <<Nodes, EntryPoint, visitStamp, visited, mutex, inserts,
          committed, lastInsert, lastQuery, memoQuery, nQueries, searches, lastCall,
          cacheVars, heapVars, pooledVars, layerVars>>

----------------------------------------------------------------------------
(* Bounds of the model and the configuration under check.                  *)

MaxNodes == 4
MaxCoord == 3
MaxLevel == 1
Mmax == 1
Mmax0 == 2
EfConstruction == 2
MaxK == 2
MaxEf == 2
MaxQueries == 1
MaxBuild == 3
MaxAsk == 2
MaxRepeat == 2
MaxThreads == 2
MaxShared == 2
MaxLogM == 2
MaxExp == 6
MaxCfg == 2
MaxEfTried == 3
MaxEfBuild == 6
MaxUpper == 1
InitialCapacity == 1
MaxCacheId == 2
MaxDist == 2
MaxHeapId == 1
MaxHeld == 5
MaxPooledLen == 2
MaxPooled == 1
MaxItems == 3
MaxPooledNodes == 3
MaxPooledCalls == 2
MaxShuffled == 2
MaxGraph == 3
MaxGraphCoord == 2
MaxFanOut == 2
MaxLayerK == 1

\* The largest and the smallest int, in the integers of the model.
MaxInt == 2147483647
MinInt == -MaxInt - 1

NoNode == -1

Vectors == {<<x>> : x \in 0..MaxCoord}

----------------------------------------------------------------------------
(* Small helpers on sequences.                                             *)

\* A minimum that answers its first argument.
TakeFirst(a, b) == a

Min2(a, b) == IF a < b THEN a ELSE b

Range(s) == {s[i] : i \in 1..Len(s)}

NodeAt(nodes, id) == nodes[id + 1]

NeighborsAt(nodes, id, lc) == nodes[id + 1].Neighbors[lc + 1]

\* node.ID of the node held at a slot of h.Nodes.
IdOf(nodes, slot) == nodes[slot + 1].ID

----------------------------------------------------------------------------
(* EuclideanDistance: the sum over the indices of vec1 of the squared      *)
(* differences (the square root is not taken).                             *)

RECURSIVE SumSquares(_, _, _)
SumSquares(vec1, vec2, i) ==
    IF i > Len(vec1) THEN 0
    ELSE (vec1[i] - vec2[i]) * (vec1[i] - vec2[i]) + SumSquares(vec1, vec2, i + 1)

EuclideanDistance(vec1, vec2) == SumSquares(vec1, vec2, 1)

DistanceFunc(vec1, vec2) == EuclideanDistance(vec1, vec2)

----------------------------------------------------------------------------
(* structs.MinHeap / structs.MaxHeap: binary heaps of NodeHeap items       *)
(* [Dist, Id] held in a slice; index i of the slice is element i+1.        *)

NewNodeHeap(dist, id) == [Dist |-> dist, Id |-> id]

\* The items pushed on the heaps under check; items of one distance differ by id.
Items == {NewNodeHeap(dist, id) : dist \in 0..MaxDist, id \in 0..MaxHeapId}

Swap(h, i, j) == [h EXCEPT ![i + 1] = h[j + 1], ![j + 1] = h[i + 1]]

RECURSIVE MinSiftUp(_, _)
MinSiftUp(h, i) ==
    IF i > 0
    THEN LET parent == (i - 1) \div 2
         IN  IF h[i + 1].Dist < h[parent + 1].Dist
             THEN MinSiftUp(Swap(h, i, parent), parent)
             ELSE h
    ELSE h

RECURSIVE MinSiftDown(_, _)
MinSiftDown(h, i) ==
    LET n == Len(h)
        left == 2 * i + 1
        right == 2 * i + 2
        s1 == IF left < n /\ h[left + 1].Dist < h[i + 1].Dist THEN left ELSE i
        smallest == IF right < n /\ h[right + 1].Dist < h[s1 + 1].Dist THEN right ELSE s1
    IN  IF smallest = i THEN h
        ELSE MinSiftDown(Swap(h, i, smallest), smallest)

MinHeapPush(h, n) == MinSiftUp(Append(h, n), Len(h))

\* Pop on a non-empty heap: the root, and the heap that is left.
MinHeapPop(h) ==
    LET lastIndex == Len(h) - 1
        moved == SubSeq([h EXCEPT ![1] = h[lastIndex + 1]], 1, lastIndex)
    IN  [item |-> h[1], heap |-> IF lastIndex = 0 THEN <<>> ELSE MinSiftDown(moved, 0)]

RECURSIVE MaxSiftUp(_, _)
MaxSiftUp(h, i) ==
    IF i > 0
    THEN LET parent == (i - 1) \div 2
         IN  IF h[i + 1].Dist > h[parent + 1].Dist
             THEN MaxSiftUp(Swap(h, i, parent), parent)
             ELSE h
    ELSE h

\* A siftDown that leaves the slice as it is.
LeaveAsIs(h, i) == h

RECURSIVE MaxSiftDown(_, _)
MaxSiftDown(h, i) ==
    LET n == Len(h)
        left == 2 * i + 1
        right == 2 * i + 2
        l1 == IF left < n /\ h[left + 1].Dist > h[i + 1].Dist THEN left ELSE i
        largest == IF right < n /\ h[right + 1].Dist > h[l1 + 1].Dist THEN right ELSE l1
    IN  IF largest = i THEN h
        ELSE MaxSiftDown(Swap(h, i, largest), largest)

MaxHeapPush(h, n) == MaxSiftUp(Append(h, n), Len(h))

MaxHeapPop(h) ==
    LET lastIndex == Len(h) - 1
        moved == SubSeq([h EXCEPT ![1] = h[lastIndex + 1]], 1, lastIndex)
    IN  [item |-> h[1], heap |-> IF lastIndex = 0 THEN <<>> ELSE MaxSiftDown(moved, 0)]

----------------------------------------------------------------------------
(* The visit stamp.  searchLayer starts every search with h.visitStamp++   *)
(* and marks nodes through h.markVisited, which reports whether the node   *)
(* already carries the current stamp and stamps it if not.                 *)

\* A stamp that stops advancing once it has left its zero value.
StuckVisitStamp(stamp) == 1

NextVisitStamp(stamp) == stamp + 1

\* [seen |-> the node was already marked in this search, visited |-> the array after]
markVisited(vis, stamp, id) ==
    IF vis[id] = stamp
    THEN [seen |-> TRUE, visited |-> vis]
    ELSE [seen |-> FALSE, visited |-> [vis EXCEPT ![id] = stamp]]

----------------------------------------------------------------------------
(* searchLayer (SEARCH-LAYER of the paper): beam search at one layer.      *)
(* The loop state s is [candidates, nearest, visited, furthestDist].       *)

\* if dist < furthestDist || nearest.Len() < ef
Admits(dist, furthestDist, nearestLen, ef) == dist < furthestDist \/ nearestLen < ef

\* A beam that is never cut back.
KeepAll(nearest, ef) == nearest

\* if nearest.Len() > ef { nearest.Pop() }
DropFurthest(nearest, ef) == IF Len(nearest) > ef THEN MaxHeapPop(nearest).heap ELSE nearest

\* An unvisited neighbour at distance dist: pushed on both heaps when admitted.
Consider(ef, neighborID, dist, s) ==
    IF Admits(dist, s.furthestDist, Len(s.nearest), ef)
    THEN [s EXCEPT !.candidates = MinHeapPush(@, NewNodeHeap(dist, neighborID)),
                   !.nearest = DropFurthest(MaxHeapPush(@, NewNodeHeap(dist, neighborID)), ef)]
    ELSE s

\* A visit that does not ask whether the neighbour was seen before.
VisitAgain(nodes, query, ef, neighborID, mv, s) ==
    Consider(ef, neighborID, DistanceFunc(query, NodeAt(nodes, neighborID).Vector),
             [s EXCEPT !.visited = mv.visited])

\* One neighbour of the current node; mv is what markVisited answered for it.
VisitNeighbor(nodes, query, ef, neighborID, mv, s) ==
    IF mv.seen THEN s
    ELSE Consider(ef, neighborID, DistanceFunc(query, NodeAt(nodes, neighborID).Vector),
                  [s EXCEPT !.visited = mv.visited])

\* "for _, neighborID := range currentNode.Neighbors[level]" from index i on.
RECURSIVE ScanNeighbors(_, _, _, _, _, _, _)
ScanNeighbors(nodes, query, ef, stamp, nbrs, i, s) ==
    IF i > Len(nbrs) THEN s
    ELSE ScanNeighbors(nodes, query, ef, stamp, nbrs, i + 1,
            VisitNeighbor(nodes, query, ef, nbrs[i],
                          markVisited(s.visited, stamp, nbrs[i]), s))

\* The neighbours of the current node are scanned unless it has no list at
\* this layer or an empty one.
ExpandNode(nodes, query, ef, level, stamp, currentNode, s) ==
    IF level >= Len(currentNode.Neighbors) \/ Len(currentNode.Neighbors[level + 1]) = 0
    THEN s
    ELSE ScanNeighbors(nodes, query, ef, stamp, currentNode.Neighbors[level + 1], 1, s)

\* furthestDist is refreshed from nearest.Peek() when nearest is not empty.
RefreshFurthest(s) ==
    [s EXCEPT !.furthestDist = IF Len(s.nearest) > 0 THEN s.nearest[1].Dist ELSE @]

\* The loop "for candidates.Len() > 0"; popped is candidates.Pop().
RECURSIVE SearchLoop(_, _, _, _, _, _)
RECURSIVE SearchStep(_, _, _, _, _, _, _)
SearchStep(nodes, query, ef, level, stamp, popped, s) ==
    IF popped.item.Dist > s.furthestDist
    THEN [s EXCEPT !.candidates = popped.heap]
    ELSE SearchLoop(nodes, query, ef, level, stamp,
            ExpandNode(nodes, query, ef, level, stamp, NodeAt(nodes, popped.item.Id),
                       [s EXCEPT !.candidates = popped.heap]))

SearchLoop(nodes, query, ef, level, stamp, s) ==
    IF Len(s.candidates) = 0 THEN s
    ELSE SearchStep(nodes, query, ef, level, stamp, MinHeapPop(s.candidates),
                    RefreshFurthest(s))

\* The sizes of W at the end of the iterations of "for candidates.Len() > 0",
\* from loop state s on, and at the exit of the loop.
RECURSIVE BeamSizes(_, _, _, _, _, _)
BeamSizesAfter(nodes, query, ef, level, stamp, popped, s) ==
    IF popped.item.Dist > s.furthestDist
    THEN {Len(s.nearest)}
    ELSE UNION {{Len(after.nearest)} \cup BeamSizes(nodes, query, ef, level, stamp, after) :
                after \in {ExpandNode(nodes, query, ef, level, stamp,
                                      NodeAt(nodes, popped.item.Id),
                                      [s EXCEPT !.candidates = popped.heap])}}

BeamSizes(nodes, query, ef, level, stamp, s) ==
    IF Len(s.candidates) = 0 THEN {Len(s.nearest)}
    ELSE BeamSizesAfter(nodes, query, ef, level, stamp, MinHeapPop(s.candidates),
                        RefreshFurthest(s))

\* results[i] = nearest.Pop().Id for i from nearestLen-1 down to 0.
RECURSIVE DrainNearest(_)
DrainNearest(nearest) ==
    IF Len(nearest) = 0 THEN <<>>
    ELSE Append(DrainNearest(MaxHeapPop(nearest).heap), nearest[1].Id)

\* The loop state before the loop: the entry point on both heaps, marked.
SearchStart(vis0, stamp, entry, initialDist) ==
    [candidates |-> MinHeapPush(<<>>, NewNodeHeap(initialDist, entry)),
     nearest |-> MaxHeapPush(<<>>, NewNodeHeap(initialDist, entry)),
     visited |-> markVisited(vis0, stamp, entry).visited,
     furthestDist |-> 0]

SearchResult(stamp, s) ==
    [results |-> DrainNearest(s.nearest), visitStamp |-> stamp, visited |-> s.visited]

\* The sizes W has at the end of the loop iterations of one searchLayer call.
searchLayerSizes(nodes, stamp0, vis0, query, entry, ef, level) ==
    BeamSizes(nodes, query, ef, level, NextVisitStamp(stamp0),
        SearchStart(vis0, NextVisitStamp(stamp0), IdOf(nodes, entry),
                    DistanceFunc(query, NodeAt(nodes, entry).Vector)))

\* searchLayer: the ids of W in ascending order of distance, and the stamp state.
searchLayer(nodes, stamp0, vis0, query, entry, ef, level) ==
    SearchResult(NextVisitStamp(stamp0),
        SearchLoop(nodes, query, ef, level, NextVisitStamp(stamp0),
            SearchStart(vis0, NextVisitStamp(stamp0), IdOf(nodes, entry),
                        DistanceFunc(query, NodeAt(nodes, entry).Vector))))

----------------------------------------------------------------------------
(* greedySearchLayer: hill climbing at one layer, first improvement.       *)

\* A scan that finds no improvement.
NoImprovement(nodes, query, nbrs, bestDist, i) == 0

\* A scan that also takes a neighbour that is no closer than the current node.
RECURSIVE FirstNotWorse(_, _, _, _, _)
FirstNotWorse(nodes, query, nbrs, bestDist, i) ==
    IF i > Len(nbrs) THEN 0
    ELSE IF DistanceFunc(query, NodeAt(nodes, nbrs[i]).Vector) <= bestDist THEN i
    ELSE FirstNotWorse(nodes, query, nbrs, bestDist, i + 1)

\* Index of the first neighbour strictly closer than bestDist, 0 when none.
RECURSIVE FirstImprovement(_, _, _, _, _)
FirstImprovement(nodes, query, nbrs, bestDist, i) ==
    IF i > Len(nbrs) THEN 0
    ELSE IF DistanceFunc(query, NodeAt(nodes, nbrs[i]).Vector) < bestDist THEN i
    ELSE FirstImprovement(nodes, query, nbrs, bestDist, i + 1)

\* currentNode.Neighbors[level] when "level < len(currentNode.Neighbors)"
LayerList(node, level) ==
    IF level < Len(node.Neighbors) THEN node.Neighbors[level + 1] ELSE <<>>

RECURSIVE GreedyLoop(_, _, _, _, _)
GreedyMove(nodes, query, level, currentNode, nbrs, i) ==
    IF i = 0 THEN currentNode
    ELSE GreedyLoop(nodes, query, level, nbrs[i],
                    DistanceFunc(query, NodeAt(nodes, nbrs[i]).Vector))

GreedyScan(nodes, query, level, currentNode, nbrs, bestDist) ==
    GreedyMove(nodes, query, level, currentNode, nbrs,
               FirstImprovement(nodes, query, nbrs, bestDist, 1))

GreedyLoop(nodes, query, level, currentNode, bestDist) ==
    GreedyScan(nodes, query, level, currentNode,
               LayerList(NodeAt(nodes, currentNode), level), bestDist)

greedySearchLayer(nodes, query, entry, level) ==
    GreedyLoop(nodes, query, level, entry, DistanceFunc(query, NodeAt(nodes, entry).Vector))

\* "for lc := from; lc > downTo; lc-- { ep = greedySearchLayer(query, ep, lc) }"
RECURSIVE Descend(_, _, _, _, _)
Descend(nodes, query, ep, from, downTo) ==
    IF from > downTo
    THEN Descend(nodes, query, greedySearchLayer(nodes, query, ep, from), from - 1, downTo)
    ELSE ep

----------------------------------------------------------------------------
(* Insert (Algorithm 1) and updateBidirectionalConnections.                *)

\* structs.NewNode: level+1 empty neighbour lists.
NewNode(id, vector, level) ==
    [ID |-> id, Vector |-> vector, Level |-> level,
     Neighbors |-> [i \in 1..(level + 1) |-> <<>>]]

\* A store that appends the node twice.
StoreTwice(nodes, newNode) == Append(Append(nodes, newNode), newNode)

\* h.Nodes = append(h.Nodes, newNode)
StoreNode(nodes, newNode) == Append(nodes, newNode)

\* A limit that leaves room for no connection.
NoConnections(lc) == 0

\* maxConn := h.Mmax; if lc == 0 { maxConn = h.Mmax0 }
MaxConnFor(lc) == IF lc = 0 THEN Mmax0 ELSE Mmax

\* A selection that keeps no neighbour.
SelectNone(nearestNeighbors, maxConn) == SubSeq(nearestNeighbors, 1, 0)

\* A selection that keeps the end of the result instead of its beginning.
SelectLast(nearestNeighbors, maxConn) ==
    IF Len(nearestNeighbors) <= maxConn THEN nearestNeighbors
    ELSE SubSeq(nearestNeighbors, Len(nearestNeighbors) - maxConn + 1, Len(nearestNeighbors))

\* neighbors = nearestNeighbors, or nearestNeighbors[:maxConn] when it is longer.
SelectNeighbors(nearestNeighbors, maxConn) ==
    IF Len(nearestNeighbors) <= maxConn THEN nearestNeighbors
    ELSE SubSeq(nearestNeighbors, 1, maxConn)

\* "for _, n := range eConn { tmpHeap.Push(dist(neighbor, n), n.ID) }" from index i on.
RECURSIVE PushConnections(_, _, _, _, _)
PushConnections(nodes, neighbor, eConn, i, heap) ==
    IF i > Len(eConn) THEN heap
    ELSE PushConnections(nodes, neighbor, eConn, i + 1,
            MinHeapPush(heap, NewNodeHeap(
                DistanceFunc(NodeAt(nodes, neighbor).Vector, NodeAt(nodes, eConn[i]).Vector),
                eConn[i])))

\* A loop that takes the items at the end of the heap's array instead of popping.
PopLast(heap, n) == [i \in 1..Min2(n, Len(heap)) |-> heap[Len(heap) - i + 1].Id]

\* "for i := 0; i < maxConn && tmpHeap.Len() > 0; i++ { candidates = append(candidates, Pop) }"
RECURSIVE PopClosest(_, _)
PopClosest(heap, n) ==
    IF n = 0 \/ Len(heap) = 0 THEN <<>>
    ELSE <<heap[1].Id>> \o PopClosest(MinHeapPop(heap).heap, n - 1)

\* The list of a full neighbour after q asks to be linked: the maxConn closest
\* to the neighbour among q and its current connections.
PrunedConnections(nodes, q, neighbor, level, maxConn) ==
    PopClosest(
        PushConnections(nodes, neighbor, NeighborsAt(nodes, neighbor, level), 1,
            MinHeapPush(<<>>, NewNodeHeap(
                DistanceFunc(NodeAt(nodes, q).Vector, NodeAt(nodes, neighbor).Vector),
                IdOf(nodes, q)))),
        maxConn)

\* A capacity test that always finds room.
AlwaysRoom(list, maxConn) == TRUE

\* if len(neighbor.Neighbors[level])+1 <= maxConn
HasRoom(list, maxConn) == Len(list) + 1 <= maxConn

\* A back link that names the neighbour itself instead of q.
BackLinkSelf(nodes, q, neighbor, level, maxConn) ==
    Append(NeighborsAt(nodes, neighbor, level), IdOf(nodes, neighbor))

\* One iteration of "for _, neighbor := range neighbors": the new list of neighbor.
BackLink(nodes, q, neighbor, level, maxConn) ==
    IF HasRoom(NeighborsAt(nodes, neighbor, level), maxConn)
    THEN Append(NeighborsAt(nodes, neighbor, level), IdOf(nodes, q))
    ELSE PrunedConnections(nodes, q, neighbor, level, maxConn)

\* A loop whose pruned lists all end as the one buffer the last pruning filled.
LinkThroughOneBuffer(nodes, q, neighbors, i, level, maxConn) ==
    LET full == {j \in 1..Len(neighbors) :
                    /\ level < Len(NodeAt(nodes, neighbors[j]).Neighbors)
                    /\ ~HasRoom(NeighborsAt(nodes, neighbors[j], level), maxConn)}
        last == CHOOSE j \in full : \A k \in full : k <= j
    IN  [n \in 1..Len(nodes) |->
            IF (n - 1) \in Range(neighbors) /\ level < Len(nodes[n].Neighbors)
            THEN [nodes[n] EXCEPT !.Neighbors[level + 1] =
                    IF HasRoom(@, maxConn) THEN Append(@, IdOf(nodes, q))
                    ELSE PrunedConnections(nodes, q, neighbors[last], level, maxConn)]
            ELSE nodes[n]]

RECURSIVE BackLinkAll(_, _, _, _, _, _)
BackLinkAll(nodes, q, neighbors, i, level, maxConn) ==
    IF i > Len(neighbors) THEN nodes
    ELSE IF level >= Len(NodeAt(nodes, neighbors[i]).Neighbors)
    THEN BackLinkAll(nodes, q, neighbors, i + 1, level, maxConn)
    ELSE BackLinkAll(
            [nodes EXCEPT ![neighbors[i] + 1].Neighbors[level + 1] =
                              BackLink(nodes, q, neighbors[i], level, maxConn)],
            q, neighbors, i + 1, level, maxConn)

updateBidirectionalConnections(nodes, q, neighbors, level, maxConn) ==
    BackLinkAll([nodes EXCEPT ![q + 1].Neighbors[level + 1] = neighbors],
                q, neighbors, 1, level, maxConn)

\* An index value: what Insert and KNN_Search read and write.
Index(nodes, entryPoint, stamp, vis) ==
    [Nodes |-> nodes, EntryPoint |-> entryPoint, visitStamp |-> stamp, visited |-> vis]

\* if len(nearestNeighbors) > 0 { ep = h.Nodes[nearestNeighbors[0].ID] }
NextEntry(nearestNeighbors, ep) ==
    IF Len(nearestNeighbors) > 0 THEN nearestNeighbors[1] ELSE ep

\* The rest of a phase-2 iteration once the neighbours are selected.
LinkSelected(h, q, ep, lc, sl, neighbors) ==
    [h |-> Index(updateBidirectionalConnections(h.Nodes, q, neighbors, lc, MaxConnFor(lc)),
                 h.EntryPoint, sl.visitStamp, sl.visited),
     ep |-> NextEntry(sl.results, ep),
     W |-> sl.results,
     neighbors |-> neighbors]

\* The rest of a phase-2 iteration once searchLayer has answered sl.
ConnectFound(h, q, ep, lc, sl) ==
    LinkSelected(h, q, ep, lc, sl, SelectNeighbors(sl.results, MaxConnFor(lc)))

\* One iteration of the phase-2 loop of Insert at layer lc, for new node q
\* and entry ep: the index after it, the entry for the next layer, the beam
\* result W and the neighbours selected.
ConnectLayer(h, q, ep, lc) ==
    ConnectFound(h, q, ep, lc,
        searchLayer(h.Nodes, h.visitStamp, h.visited,
                    NodeAt(h.Nodes, q).Vector, ep, EfConstruction, lc))

\* An entry point that never moves, and one that also moves on a tie.
KeepEntryPoint(entryPoint, L, q, level) == entryPoint

EntryPointOnTie(entryPoint, L, q, level) == IF level >= L THEN q ELSE entryPoint

\* if level > L { h.EntryPoint = newNode }
EntryPointAfter(entryPoint, L, q, level) == IF level > L THEN q ELSE entryPoint

----------------------------------------------------------------------------
(* KNN_Search (Algorithm 5), the variant that returns candidates[:K] of    *)
(* the slice searchLayer returns.                                          *)

\* if ef < K { ef = K }
EffectiveEf(K, ef) == IF ef < K THEN K ELSE ef

\* candidates[:K]: a slice expression past the capacity of the slice panics.
SliceTo(candidates, K) ==
    IF K > Len(candidates)
    THEN [status |-> "panic", ids |-> <<>>]
    ELSE [status |-> "ok", ids |-> SubSeq(candidates, 1, K)]

\* The greedy descent of KNN_Search from the entry point through layers L..1.
QueryEntry(h, query) ==
    Descend(h.Nodes, query, h.EntryPoint, NodeAt(h.Nodes, h.EntryPoint).Level, 0)

KnnReturn(sl, ret) ==
    [status |-> ret.status, ids |-> ret.ids, W |-> sl.results,
     visitStamp |-> sl.visitStamp, visited |-> sl.visited]

KnnSlice(sl, K) == KnnReturn(sl, SliceTo(sl.results, K))

\* [status, ids, W, visitStamp, visited]: what the call returns (status "ok"
\* with the ids, or "panic"), the beam result W, and the stamp state it leaves.
KNN_Search(h, query, K, ef) ==
    IF h.EntryPoint = NoNode
    THEN [status |-> "ok", ids |-> <<>>, W |-> <<>>,
          visitStamp |-> h.visitStamp, visited |-> h.visited]
    ELSE KnnSlice(searchLayer(h.Nodes, h.visitStamp, h.visited, query,
                              QueryEntry(h, query), EffectiveEf(K, ef), 0),
                  K)

----------------------------------------------------------------------------
(* The variant of searchLayer that returns the max-heap W of encoded items *)
(* and the variant of KNN_Search that pops its result from that heap.      *)
(* EncodeHeapItem packs (distance, id) into a uint64 whose integer order   *)
(* is the order of the distance, then of the id; an encoded item is kept   *)
(* here as the pair [Dist, Id] compared in that order.  The heaps are      *)
(* container/heap priority queues over these keys: Pop on the min-heap     *)
(* removes the least key, Pop on the max-heap the greatest.                *)

EncodeHeapItem(dist, id) == [Dist |-> dist, Id |-> id]

EncLess(a, b) == a.Dist < b.Dist \/ (a.Dist = b.Dist /\ a.Id < b.Id)

EncMin(S) == CHOOSE x \in S : \A y \in S : y = x \/ EncLess(x, y)

EncMax(S) == CHOOSE x \in S : \A y \in S : y = x \/ EncLess(y, x)

\* if nearest.Len() > ef { heap.Pop(nearest) }
EncDropFurthest(nearest, ef) ==
    IF Cardinality(nearest) > ef THEN nearest \ {EncMax(nearest)} ELSE nearest

EncConsider(ef, furthestDist, item, s) ==
    IF item.Dist < furthestDist \/ Cardinality(s.nearest) < ef
    THEN [s EXCEPT !.candidates = @ \cup {item},
                   !.nearest = EncDropFurthest(@ \cup {item}, ef)]
    ELSE s

EncVisitNeighbor(nodes, query, ef, furthestDist, neighbor, s) ==
    IF neighbor \in s.visited THEN s
    ELSE EncConsider(ef, furthestDist,
            EncodeHeapItem(DistanceFunc(query, NodeAt(nodes, neighbor).Vector), neighbor),
            [s EXCEPT !.visited = @ \cup {neighbor}])

RECURSIVE EncScanNeighbors(_, _, _, _, _, _, _)
EncScanNeighbors(nodes, query, ef, furthestDist, nbrs, i, s) ==
    IF i > Len(nbrs) THEN s
    ELSE EncScanNeighbors(nodes, query, ef, furthestDist, nbrs, i + 1,
            EncVisitNeighbor(nodes, query, ef, furthestDist, nbrs[i], s))

EncExpandNode(nodes, query, ef, level, furthestDist, currentNode, s) ==
    IF level >= Len(currentNode.Neighbors) \/ Len(currentNode.Neighbors[level + 1]) = 0
    THEN s
    ELSE EncScanNeighbors(nodes, query, ef, furthestDist,
                          currentNode.Neighbors[level + 1], 1, s)

RECURSIVE EncSearchLoop(_, _, _, _, _)
EncSearchStep(nodes, query, ef, level, current, furthestDist, s) ==
    IF current.Dist > furthestDist THEN s
    ELSE EncSearchLoop(nodes, query, ef, level,
            EncExpandNode(nodes, query, ef, level, furthestDist,
                          NodeAt(nodes, current.Id), s))

EncSearchLoop(nodes, query, ef, level, s) ==
    IF s.candidates = {} THEN s
    ELSE EncSearchStep(nodes, query, ef, level, EncMin(s.candidates),
                       EncMax(s.nearest).Dist,
                       [s EXCEPT !.candidates = @ \ {EncMin(s.candidates)}])

EncSearchStart(item, entry) ==
    [candidates |-> {item}, nearest |-> {item}, visited |-> {entry}]

\* The heap "nearest" that this variant returns: the set of its items.
searchLayerHeap(nodes, query, entry, ef, level) ==
    EncSearchLoop(nodes, query, ef, level,
        EncSearchStart(
            EncodeHeapItem(DistanceFunc(query, NodeAt(nodes, entry).Vector),
                           IdOf(nodes, entry)),
            IdOf(nodes, entry))).nearest

\* "for candidates.Len() > 0 && len(results) < K { results = append(results, heap.Pop(candidates)) }"
RECURSIVE PopResults(_, _)
PopResults(heap, K) ==
    IF heap = {} \/ K = 0 THEN <<>>
    ELSE <<EncMax(heap).Id>> \o PopResults(heap \ {EncMax(heap)}, K - 1)

KnnHeapReturn(candidates, K) ==
    [status |-> "ok", ids |-> PopResults(candidates, K), W |-> {x.Id : x \in candidates}]

KNN_SearchHeap(h, query, K, ef) ==
    IF h.EntryPoint = NoNode
    THEN [status |-> "ok", ids |-> <<>>, W |-> {}]
    ELSE KnnHeapReturn(
            searchLayerHeap(h.Nodes, query, QueryEntry(h, query), EffectiveEf(K, ef), 0),
            K)

----------------------------------------------------------------------------
(* The searchLayer that takes its objects from pools: the visited set, the *)
(* two heaps and the node-heap map come from their pools and go back in    *)
(* the deferred function; NodeHeap items come from h.nodeHeapPool through  *)
(* getNodeHeap.  An item is a pointer: a heap slot holds the pointer next  *)
(* to the fields read through it, and a write through the pointer shows in *)
(* every slot that holds it.                                               *)

PooledContainers == {"visited", "candidates", "nearest", "nodeHeapMap"}

\* No item: the zero of a nodeHeapMap slot.
NoItem == 0

\* NewNodeHeapPool: nothing made, nothing put back.
NewNodeHeapPool ==
    [made |-> 0,
     free |-> [ptr \in 1..MaxItems |-> 0],
     items |-> [ptr \in 1..MaxItems |-> [Dist |-> 0, Id |-> -1]]]

\* The frame before any call.
NoPooledSearch ==
    [pc |-> "idle", calls |-> 0, query |-> <<0>>, entry |-> NoNode, ef |-> 1, level |-> 0,
     candidates |-> <<>>, nearest |-> <<>>,
     nodeHeapMap |-> [id \in 0..(MaxPooledNodes - 1) |-> NoItem],
     visited |-> {}, furthestDist |-> 0, lastNearestLen |-> 1,
     current |-> NoNode, i |-> 0,
     gets |-> [ptr \in 1..MaxItems |-> 0], puts |-> [ptr \in 1..MaxItems |-> 0],
     held |-> {}, results |-> <<>>]

\* The heap slot for the item behind ptr.
ItemAt(pool, ptr) ==
    [Dist |-> pool.items[ptr].Dist, Id |-> pool.items[ptr].Id, Ptr |-> ptr]

\* "nh.Dist = dist; nh.Id = id" as the slots of a heap that hold nh show it.
WriteThrough(heap, ptr, dist, id) ==
    [k \in 1..Len(heap) |->
        IF heap[k].Ptr = ptr THEN [Dist |-> dist, Id |-> id, Ptr |-> ptr] ELSE heap[k]]

\* What sync.Pool.Get may hand out: an item put back, or a new one from New.
Available(pool) ==
    {ptr \in 1..pool.made : pool.free[ptr] > 0}
        \cup (IF pool.made < MaxItems THEN {pool.made + 1} ELSE {})

\* NodeHeapPool.Put(nh): the fields are cleared and the item goes to the pool.
\* st is [f |-> the frame, pool |-> the pool].
NodeHeapPoolPut(st, ptr) ==
    [f |-> [st.f EXCEPT !.candidates = WriteThrough(@, ptr, 0, -1),
                        !.nearest = WriteThrough(@, ptr, 0, -1),
                        !.puts[ptr] = @ + 1],
     pool |-> [st.pool EXCEPT !.free[ptr] = @ + 1,
                              !.items[ptr] = [Dist |-> 0, Id |-> -1]]]

\* NodeHeapPool.Get(dist, id) when the pool hands out ptr.
NodeHeapPoolGet(st, ptr, dist, id) ==
    [f |-> [st.f EXCEPT !.candidates = WriteThrough(@, ptr, dist, id),
                        !.nearest = WriteThrough(@, ptr, dist, id),
                        !.gets[ptr] = @ + 1],
     pool |-> [st.pool EXCEPT
                  !.free[ptr] = IF ptr <= st.pool.made THEN @ - 1 ELSE @,
                  !.made = IF ptr > @ THEN ptr ELSE @,
                  !.items[ptr] = [Dist |-> dist, Id |-> id]]]

\* getNodeHeap: the item the map holds for id, else one from the pool.
GetNodeHeapChoices(st, id) ==
    IF st.f.nodeHeapMap[id] # NoItem THEN {st.f.nodeHeapMap[id]} ELSE Available(st.pool)

getNodeHeap(st, ptr, dist, id) ==
    IF st.f.nodeHeapMap[id] # NoItem THEN st
    ELSE [f |-> [NodeHeapPoolGet(st, ptr, dist, id).f EXCEPT !.nodeHeapMap[id] = ptr],
          pool |-> NodeHeapPoolGet(st, ptr, dist, id).pool]

\* candidates.Push(nh); nearest.Push(nh)
PushBoth(st, ptr) ==
    [st EXCEPT !.f.candidates = MinHeapPush(@, ItemAt(st.pool, ptr)),
               !.f.nearest = MaxHeapPush(@, ItemAt(st.pool, ptr))]

\* if nearest.Len() > ef { h.nodeHeapPool.Put(nearest.Pop()) }
EvictToPool(st, ef) ==
    IF Len(st.f.nearest) > ef
    THEN NodeHeapPoolPut([st EXCEPT !.f.nearest = MaxHeapPop(st.f.nearest).heap],
                         st.f.nearest[1].Ptr)
    ELSE st

\* "for _, nh := range nodeHeapMap { h.nodeHeapPool.Put(nh) }" from id on.
RECURSIVE PutMapped(_, _)
PutMapped(st, id) ==
    IF id >= MaxPooledNodes THEN st
    ELSE PutMapped(IF st.f.nodeHeapMap[id] # NoItem
                   THEN NodeHeapPoolPut(st, st.f.nodeHeapMap[id])
                   ELSE st,
                   id + 1)

----------------------------------------------------------------------------
(* The state machine.                                                      *)

None == [kind |-> "none"]

\* No call is followed step by step.
NoLayerCall == [pc |-> "idle"]

\* The goroutines that call KNN_Search at the same time, and one that is not in a call.
Threads == 1..MaxThreads

Stopped == [pc |-> "idle"]

CurrentIndex == Index(Nodes, EntryPoint, visitStamp, visited)

Snapshot(nodes, entryPoint) == [Nodes |-> nodes, EntryPoint |-> entryPoint]

\* newDistanceCache(initialCapacity): every entry holds the invalid distance -1.
\* Entry id of the Go slice is element id+1 of the sequence.
newDistanceCache(initialCapacity) == [i \in 1..initialCapacity |-> -1]

Init ==
    /\ Nodes = <<>>
    /\ EntryPoint = NoNode
    /\ visitStamp = 0
    /\ visited = [i \in 0..(MaxNodes - 1) |-> 0]
    /\ mutex = [writer |-> FALSE, readers |-> 0]
    /\ inserts = {}
    /\ committed = Snapshot(<<>>, NoNode)
    /\ lastInsert = None
    /\ lastQuery = None
    /\ memoQuery = None
    /\ nQueries = 0
    /\ searches = [t \in Threads |-> Stopped]
    /\ lastCall = None
    /\ cacheArrays = <<newDistanceCache(InitialCapacity)>>
    /\ globalDistanceCache = 1
    /\ cacheCalls = [t \in Threads |-> Stopped]
    /\ minHeap = <<>>
    /\ maxHeap = <<>>
    /\ pushed = [heap \in {"min", "max"} |-> [n \in Items |-> 0]]
    /\ minHeapPool = {}
    /\ maxHeapPool = {}
    /\ pooledSearch = NoPooledSearch
    /\ nodeHeapPool = NewNodeHeapPool
    /\ layerCall = NoLayerCall

\* A Lock() that does not wait.
LockAnyway(m) == TRUE

\* h.mutex.Lock() succeeds when no writer and no reader holds the mutex.
CanLock(m) == ~m.writer /\ m.readers = 0

\* h.mutex.RLock() succeeds when no writer holds the mutex.
CanRLock(m) == ~m.writer

\* Insert from h.mutex.Lock() to the end of phase 1: the level is drawn, the
\* node is created and appended; on an empty index it becomes the entry
\* point and the call returns, otherwise the greedy descent finds ep.
InsertLock(vector, level) ==
    /\ Len(Nodes) < MaxNodes
    /\ CanLock(mutex)
    /\ LET id == Len(Nodes)
           newNode == NewNode(id, vector, level)
           nodes == StoreNode(Nodes, newNode)
       IN  /\ mutex' = [mutex EXCEPT !.writer = TRUE]
           /\ Nodes' = nodes
           /\ IF EntryPoint = NoNode
              THEN /\ EntryPoint' = id
                   /\ inserts' = inserts \cup
                        {[pc |-> "return", q |-> id, level |-> level, L |-> level,
                          ep |-> id, lc |-> -1, pruned |-> FALSE, first |-> TRUE]}
              ELSE LET L == NodeAt(Nodes, EntryPoint).Level
                   IN  /\ EntryPoint' = EntryPoint
                       /\ inserts' = inserts \cup
                            {[pc |-> "connect", q |-> id, level |-> level, L |-> L,
                              ep |-> Descend(nodes, vector, EntryPoint, L, level),
                              lc |-> Min2(L, level), pruned |-> FALSE, first |-> FALSE]}
    /\ lastQuery' = None
    /\ memoQuery' = None
    /\ UNCHANGED <<visitStamp, visited, committed, lastInsert, nQueries, searches, lastCall,
                   cacheVars, heapVars, pooledVars, layerVars>>

\* Whether linking q to these neighbours at this layer prunes a full list.
Prunes(nodes, neighbors, level, maxConn) ==
    \E i \in 1..Len(neighbors) :
        /\ level < Len(NodeAt(nodes, neighbors[i]).Neighbors)
        /\ Len(NeighborsAt(nodes, neighbors[i], level)) + 1 > maxConn

\* One iteration of the phase-2 loop of Insert.
InsertConnect ==
    \E f \in inserts :
        /\ f.pc = "connect"
        /\ \E c \in {ConnectLayer(CurrentIndex, f.q, f.ep, f.lc)} :
               /\ Nodes' = c.h.Nodes
               /\ visitStamp' = c.h.visitStamp
               /\ visited' = c.h.visited
               /\ inserts' = (inserts \ {f}) \cup
                    {[f EXCEPT !.ep = c.ep,
                               !.lc = f.lc - 1,
                               !.pc = IF f.lc = 0 THEN "return" ELSE "connect",
                               !.pruned = f.pruned
                                   \/ Prunes(Nodes, c.neighbors, f.lc, MaxConnFor(f.lc))]}
        /\ UNCHANGED <<EntryPoint, mutex, committed, lastInsert, lastQuery, memoQuery, nQueries, searches, lastCall,
                   cacheVars, heapVars, pooledVars, layerVars>>

\* The end of Insert: the entry point moves to the new node when its level
\* is higher, and the deferred Unlock() runs.
InsertReturn ==
    \E f \in inserts :
        /\ f.pc = "return"
        /\ EntryPoint' = IF f.first THEN EntryPoint
                         ELSE EntryPointAfter(EntryPoint, f.L, f.q, f.level)
        /\ mutex' = [mutex EXCEPT !.writer = FALSE]
        /\ inserts' = inserts \ {f}
        /\ committed' = Snapshot(Nodes, EntryPoint')
        /\ lastInsert' = [kind |-> "insert", q |-> f.q, level |-> f.level, L |-> f.L,
                          first |-> f.first, pruned |-> f.pruned,
                          oldEntryPoint |-> EntryPoint]
        /\ UNCHANGED <<Nodes, visitStamp, visited, lastQuery, memoQuery, nQueries, searches, lastCall,
                   cacheVars, heapVars, pooledVars, layerVars>>

\* KNN_Search up to h.mutex.RLock().
QueryLock ==
    /\ nQueries + mutex.readers < MaxQueries
    /\ CanRLock(mutex)
    /\ mutex' = [mutex EXCEPT !.readers = @ + 1]
    /\ UNCHANGED <<Nodes, EntryPoint, visitStamp, visited, inserts, committed,
                   lastInsert, lastQuery, memoQuery, nQueries, searches, lastCall,
                   cacheVars, heapVars, pooledVars, layerVars>>

QueryRecord(variant, query, K, ef, r) ==
    [kind |-> "query", variant |-> variant, query |-> query, K |-> K, ef |-> ef,
     status |-> r.status, ids |-> r.ids, W |-> r.W,
     index |-> Snapshot(Nodes, EntryPoint)]

\* KNN_Search from RLock() to its return and the deferred RUnlock().
QuerySearch(query, K, ef) ==
    /\ mutex.readers > 0
    /\ \E r \in {KNN_Search(CurrentIndex, query, K, ef)} :
           /\ visitStamp' = r.visitStamp
           /\ visited' = r.visited
           /\ lastQuery' = QueryRecord("slice", query, K, ef, r)
    /\ mutex' = [mutex EXCEPT !.readers = @ - 1]
    /\ nQueries' = nQueries + 1
    /\ UNCHANGED <<Nodes, EntryPoint, inserts, committed, lastInsert, memoQuery, searches, lastCall,
                   cacheVars, heapVars, pooledVars, layerVars>>

\* The heap-popping variant of KNN_Search, from RLock() to its return.
QuerySearchHeap(query, K, ef) ==
    /\ mutex.readers > 0
    /\ lastQuery' = QueryRecord("heap", query, K, ef,
                                KNN_SearchHeap(CurrentIndex, query, K, ef))
    /\ mutex' = [mutex EXCEPT !.readers = @ - 1]
    /\ nQueries' = nQueries + 1
    /\ UNCHANGED <<Nodes, EntryPoint, visitStamp, visited, inserts, committed,
                   lastInsert, memoQuery, searches, lastCall,
                   cacheVars, heapVars, pooledVars, layerVars>>

Next ==
    \/ \E vector \in Vectors, level \in 0..MaxLevel : InsertLock(vector, level)
    \/ InsertConnect
    \/ InsertReturn
    \/ QueryLock
    \/ \E query \in Vectors, K \in 1..MaxK, ef \in 1..MaxEf : QuerySearch(query, K, ef)
    \/ \E query \in Vectors, K \in 1..MaxK, ef \in 1..MaxEf : QuerySearchHeap(query, K, ef)

Spec == Init /\ [][Next]_vars

----------------------------------------------------------------------------
(* Repeated queries on an index that is built and then left unchanged.     *)
(* The inserts run first; then KNN_Search calls run one after another.     *)
(* memoQuery keeps one of them with its result, the number of calls with   *)
(* other arguments made since, and the number of times it was repeated.    *)

BuildLock(vector, level) ==
    /\ Len(Nodes) < MaxBuild
    /\ nQueries = 0
    /\ InsertLock(vector, level)

Memo(rec) == [rec EXCEPT !.kind = "memo"] @@ [others |-> 0, repeats |-> 0]

SameCall(a, b) ==
    /\ a.variant = b.variant
    /\ a.query = b.query
    /\ a.K = b.K
    /\ a.ef = b.ef

\* A KNN_Search call, RLock() to RUnlock(); it is remembered, or counted as
\* another call made after the remembered one.
Ask(query, K, ef) ==
    /\ CanRLock(mutex)
    /\ nQueries < MaxAsk
    /\ \E r \in {KNN_Search(CurrentIndex, query, K, ef)} :
           /\ visitStamp' = r.visitStamp
           /\ visited' = r.visited
           /\ lastQuery' = QueryRecord("slice", query, K, ef, r)
    /\ \/ memoQuery' = Memo(lastQuery')
       \/ /\ memoQuery.kind = "memo"
          /\ ~SameCall(memoQuery, lastQuery')
          /\ memoQuery' = [memoQuery EXCEPT !.others = @ + 1]
    /\ nQueries' = nQueries + 1
    /\ UNCHANGED <<Nodes, EntryPoint, mutex, inserts, committed, lastInsert, searches, lastCall,
                   cacheVars, heapVars, pooledVars, layerVars>>

\* The remembered call made again.
Repeat ==
    /\ CanRLock(mutex)
    /\ memoQuery.kind = "memo"
    /\ nQueries < MaxAsk + MaxRepeat
    /\ \E r \in {KNN_Search(CurrentIndex, memoQuery.query, memoQuery.K, memoQuery.ef)} :
           /\ visitStamp' = r.visitStamp
           /\ visited' = r.visited
           /\ lastQuery' = QueryRecord("slice", memoQuery.query, memoQuery.K, memoQuery.ef, r)
    /\ memoQuery' = [memoQuery EXCEPT !.repeats = @ + 1]
    /\ nQueries' = nQueries + 1
    /\ UNCHANGED <<Nodes, EntryPoint, mutex, inserts, committed, lastInsert, searches, lastCall,
                   cacheVars, heapVars, pooledVars, layerVars>>

NextQuery ==
    \/ \E vector \in Vectors, level \in 0..MaxLevel : BuildLock(vector, level)
    \/ InsertConnect
    \/ InsertReturn
    \/ \E query \in Vectors, K \in 1..MaxK, ef \in 1..MaxEf : Ask(query, K, ef)
    \/ Repeat

SpecQuery == Init /\ [][NextQuery]_vars

----------------------------------------------------------------------------
(* KNN_Search calls that run at the same time.  Each goroutine holds the   *)
(* read lock for its call; h.visitStamp and the visit marks are fields of  *)
(* the index, read and written by every search without further locking.    *)
(* A step is the load of h.visitStamp, its store with the start of         *)
(* searchLayer, one iteration of the loop of searchLayer, or the return.   *)

\* One iteration of "for candidates.Len() > 0" once current is popped;
\* more says whether the loop goes on.
IterateFrom(nodes, query, ef, level, stamp, popped, s) ==
    IF popped.item.Dist > s.furthestDist
    THEN [s |-> [s EXCEPT !.candidates = popped.heap], more |-> FALSE]
    ELSE [s |-> ExpandNode(nodes, query, ef, level, stamp, NodeAt(nodes, popped.item.Id),
                           [s EXCEPT !.candidates = popped.heap]),
          more |-> TRUE]

SearchIteration(nodes, query, ef, level, stamp, s) ==
    IterateFrom(nodes, query, ef, level, stamp, MinHeapPop(s.candidates), RefreshFurthest(s))

\* The loop state of a search: its own heaps, and the marks of the index.
LoopState(f) ==
    [candidates |-> f.candidates, nearest |-> f.nearest, visited |-> visited,
     furthestDist |-> f.furthestDist]

\* A goroutine may start its call once the ones before it have started theirs.
MayBegin(t) == \A u \in Threads : u < t => searches[u].pc # "idle"

\* KNN_Search from its entry to the load of h.visitStamp in searchLayer.
QueryBegin(t, query, K, ef) ==
    /\ searches[t].pc = "idle"
    /\ MayBegin(t)
    /\ Len(Nodes) > 0
    /\ CanRLock(mutex)
    /\ mutex' = [mutex EXCEPT !.readers = @ + 1]
    /\ searches' = [searches EXCEPT ![t] =
            [pc |-> "stamp", query |-> query, K |-> K, ef |-> EffectiveEf(K, ef),
             entry |-> QueryEntry(CurrentIndex, query), read |-> visitStamp]]
    /\ UNCHANGED <<Nodes, EntryPoint, visitStamp, visited, inserts, committed,
                   lastInsert, lastQuery, memoQuery, nQueries, lastCall,
                   cacheVars, heapVars, pooledVars, layerVars>>

\* The store of h.visitStamp++ and the start of searchLayer: the entry point
\* goes on both heaps and is marked.
QueryStamp(t) ==
    /\ searches[t].pc = "stamp"
    /\ visitStamp' = NextVisitStamp(searches[t].read)
    /\ \E start \in {SearchStart(visited, visitStamp', IdOf(Nodes, searches[t].entry),
                        DistanceFunc(searches[t].query,
                                     NodeAt(Nodes, searches[t].entry).Vector))} :
           /\ visited' = start.visited
           /\ searches' = [searches EXCEPT ![t] =
                  [pc |-> "loop", query |-> @.query, K |-> @.K, ef |-> @.ef,
                   candidates |-> start.candidates, nearest |-> start.nearest,
                   furthestDist |-> start.furthestDist]]
    /\ UNCHANGED <<Nodes, EntryPoint, mutex, inserts, committed,
                   lastInsert, lastQuery, memoQuery, nQueries, lastCall,
                   cacheVars, heapVars, pooledVars, layerVars>>

\* One iteration of the loop of searchLayer at layer 0; markVisited reads
\* h.visitStamp and the marks as they are now.
QueryIterate(t) ==
    /\ searches[t].pc = "loop"
    /\ IF Len(searches[t].candidates) = 0
       THEN /\ searches' = [searches EXCEPT ![t].pc = "return"]
            /\ visited' = visited
       ELSE \E it \in {SearchIteration(Nodes, searches[t].query, searches[t].ef, 0,
                                       visitStamp, LoopState(searches[t]))} :
                /\ visited' = it.s.visited
                /\ searches' = [searches EXCEPT
                       ![t].pc = IF it.more THEN "loop" ELSE "return",
                       ![t].candidates = it.s.candidates,
                       ![t].nearest = it.s.nearest,
                       ![t].furthestDist = it.s.furthestDist]
    /\ UNCHANGED <<Nodes, EntryPoint, visitStamp, mutex, inserts, committed,
                   lastInsert, lastQuery, memoQuery, nQueries, lastCall,
                   cacheVars, heapVars, pooledVars, layerVars>>

\* The end of searchLayer and of KNN_Search: the result is cut to K and the
\* deferred RUnlock() runs.
QueryReturn(t) ==
    /\ searches[t].pc = "return"
    /\ \E ret \in {SliceTo(DrainNearest(searches[t].nearest), searches[t].K)} :
           searches' = [searches EXCEPT ![t] =
               [pc |-> "done", query |-> @.query, K |-> @.K, ef |-> @.ef,
                status |-> ret.status, ids |-> ret.ids]]
    /\ mutex' = [mutex EXCEPT !.readers = @ - 1]
    /\ UNCHANGED <<Nodes, EntryPoint, visitStamp, visited, inserts, committed,
                   lastInsert, lastQuery, memoQuery, nQueries, lastCall,
                   cacheVars, heapVars, pooledVars, layerVars>>

\* The inserts that build the index all return before the first query starts.
SharedBuildLock(vector, level) ==
    /\ Len(Nodes) < MaxShared
    /\ \A t \in Threads : searches[t].pc = "idle"
    /\ InsertLock(vector, level)

NextConcurrent ==
    \/ \E vector \in Vectors, level \in 0..MaxLevel : SharedBuildLock(vector, level)
    \/ InsertConnect
    \/ InsertReturn
    \/ \E t \in Threads, query \in Vectors, K \in 1..MaxK, ef \in 1..MaxEf :
           QueryBegin(t, query, K, ef)
    \/ \E t \in Threads : QueryStamp(t)
    \/ \E t \in Threads : QueryIterate(t)
    \/ \E t \in Threads : QueryReturn(t)

SpecConcurrent == Init /\ [][NextConcurrent]_vars

----------------------------------------------------------------------------
(* Insert as one call, for callers that do not keep to its preconditions:  *)
(* an empty vector, a vector longer than the stored ones, an id that is    *)
(* already stored, and a caller that writes to the slice it passed.        *)

\* A test of the vector that lets every vector through.
NeverRejects(vector) == FALSE

\* if len(vector) == 0 { panic("vector cannot be empty") }
RejectsVector(vector) == Len(vector) = 0

\* EuclideanDistance reads vec2[i] for every index i of vec1: the read is
\* out of range, and the call panics, when vec1 is the longer one.
DistancePanics(vec1, vec2) == Len(vec1) > Len(vec2)

\* What a call leaves: how it ended, the index, whether the write lock is
\* still held and whether h.RandomLevel() was called.
CallResult(status, h, locked, drewLevel) ==
    [status |-> status, h |-> h, locked |-> locked, drewLevel |-> drewLevel]

\* "for lc := maxLayer; lc >= 0; lc--" from layer lc on.
RECURSIVE ConnectDown(_, _, _, _)
RECURSIVE ConnectBelow(_, _, _)
ConnectDown(h, q, ep, lc) ==
    IF lc < 0 THEN h ELSE ConnectBelow(q, lc, ConnectLayer(h, q, ep, lc))

ConnectBelow(q, lc, c) == ConnectDown(c.h, q, c.ep, lc - 1)

\* Phase 1 and phase 2 of Insert for the appended node q.
LinkNode(h, q, level, L) ==
    ConnectDown(h, q, Descend(h.Nodes, NodeAt(h.Nodes, q).Vector, h.EntryPoint, L, level),
                Min2(L, level))

\* if level > L { h.EntryPoint = newNode }
MoveEntryPoint(h, L, q, level) ==
    [h EXCEPT !.EntryPoint = EntryPointAfter(h.EntryPoint, L, q, level)]

\* The first distance Insert computes is DistanceFunc(vector, ep.Vector): in
\* greedySearchLayer when phase 1 has a layer to descend, else in searchLayer
\* after h.visitStamp++.  When it panics the deferred Unlock() runs and the
\* appended node stays as it is.
PanicAtFirstDistance(h, level, L) ==
    CallResult("panic: index out of range",
               [h EXCEPT !.visitStamp = IF L > level THEN @ ELSE NextVisitStamp(@)],
               FALSE, TRUE)

\* Insert on a non-empty index, from the append on; q is the slot of the new node.
InsertStored(h, q, level, L) ==
    IF DistancePanics(NodeAt(h.Nodes, q).Vector, NodeAt(h.Nodes, h.EntryPoint).Vector)
    THEN PanicAtFirstDistance(h, level, L)
    ELSE CallResult("ok", MoveEntryPoint(LinkNode(h, q, level, L), L, q, level), FALSE, TRUE)

\* Insert(vector, id) with the level h.RandomLevel() draws.
InsertCall(h, vector, level, id) ==
    IF RejectsVector(vector)
    THEN CallResult("panic: vector cannot be empty", h, FALSE, FALSE)
    ELSE IF h.EntryPoint = NoNode
    THEN CallResult("ok",
                    [h EXCEPT !.Nodes = StoreNode(h.Nodes, NewNode(id, vector, level)),
                              !.EntryPoint = Len(h.Nodes)],
                    FALSE, TRUE)
    ELSE InsertStored([h EXCEPT !.Nodes = StoreNode(h.Nodes, NewNode(id, vector, level))],
                      Len(h.Nodes), level, NodeAt(h.Nodes, h.EntryPoint).Level)

\* The vectors a caller passes: of the dimension of the index, empty, or longer.
LongVectors == {<<x, y>> : x \in {0, MaxCoord}, y \in {0}}

CallVectors == Vectors \cup {<<>>} \cup LongVectors

\* One call of Insert from entry to return or panic.
CallInsert(vector, level, id) ==
    /\ Len(Nodes) < MaxNodes
    /\ CanLock(mutex)
    /\ \E r \in {InsertCall(CurrentIndex, vector, level, id)} :
           /\ Nodes' = r.h.Nodes
           /\ EntryPoint' = r.h.EntryPoint
           /\ visitStamp' = r.h.visitStamp
           /\ visited' = r.h.visited
           /\ mutex' = [mutex EXCEPT !.writer = r.locked]
           /\ lastCall' = [kind |-> "insert", vector |-> vector, id |-> id, level |-> level,
                           status |-> r.status, drewLevel |-> r.drewLevel,
                           before |-> CurrentIndex]
    /\ UNCHANGED <<inserts, committed, lastInsert, lastQuery, memoQuery, nQueries, searches,
                   cacheVars, heapVars, pooledVars, layerVars>>

\* NewNode keeps the caller's slice (Vector: vector): a write of the caller
\* to element i of the slice it passed for the node in a slot is a write to
\* the stored vector.
CallerWrite(slot, i, x) ==
    /\ lastCall.kind = "insert"
    /\ slot < Len(Nodes)
    /\ i <= Len(NodeAt(Nodes, slot).Vector)
    /\ NodeAt(Nodes, slot).Vector[i] # x
    /\ Nodes' = [Nodes EXCEPT ![slot + 1].Vector[i] = x]
    /\ lastCall' = [kind |-> "write", slot |-> slot, stored |-> NodeAt(Nodes, slot).Vector,
                    before |-> CurrentIndex]
    /\ UNCHANGED <<EntryPoint, visitStamp, visited, mutex, inserts, committed,
                   lastInsert, lastQuery, memoQuery, nQueries, searches,
                   cacheVars, heapVars, pooledVars, layerVars>>

\* A call with the next id in insertion order; the first call fixes the dimension.
InsertInOrder(vector, level) ==
    /\ Len(Nodes) < MaxBuild
    /\ Len(Nodes) = 0 => vector \in Vectors
    /\ CallInsert(vector, level, Len(Nodes))

NextCalls ==
    \/ \E vector \in CallVectors, level \in 0..MaxLevel : InsertInOrder(vector, level)
    \/ \E slot \in 0..(MaxBuild - 1), i \in 1..2, x \in 0..MaxCoord : CallerWrite(slot, i, x)

SpecCalls == Init /\ [][NextCalls]_vars

\* Calls with vectors of one dimension and ids that may be stored already.
NextIds ==
    \E vector \in Vectors, level \in 0..MaxLevel, id \in 0..Len(Nodes) :
        CallInsert(vector, level, id)

SpecIds == Init /\ [][NextIds]_vars

----------------------------------------------------------------------------
(* NewHNSW, validateConfig and RandomLevel.  A float64 is kept as what it  *)
(* stands for: a ratio num/den that is not negative, +Inf or NaN.          *)
(* Logarithms are counted in units of ln 2: M and the random value are     *)
(* powers of two, so math.Log(M) is Log2Of(M) units and -math.Log(2^-k) is *)
(* k units, and the unit cancels in -math.Log(randValue) * h.mL.           *)

Fin(num, den) == [kind |-> "fin", num |-> num, den |-> den]

PosInf == [kind |-> "inf"]

NaN == [kind |-> "nan"]

IsZero(x) == x.kind = "fin" /\ x.num = 0

RECURSIVE Pow2(_)
Pow2(e) == IF e = 0 THEN 1 ELSE 2 * Pow2(e - 1)

RECURSIVE Log2Of(_)
Log2Of(M) == IF M <= 1 THEN 0 ELSE 1 + Log2Of(M \div 2)

\* math.Log(float64(cfg.M))
LogOf(M) == Fin(Log2Of(M), 1)

\* 1 / x for x >= 0: 1 / 0 is +Inf.
Reciprocal(x) == IF IsZero(x) THEN PosInf ELSE Fin(x.den, x.num)

\* A random value: 0, or 2^-exp.
RandValue(zero, exp) == [zero |-> zero, exp |-> exp]

\* -math.Log(randValue): +Inf for 0, and 0 for 1.
NegLog(r) == IF r.zero THEN PosInf ELSE Fin(r.exp, 1)

\* x * y: 0 * Inf is NaN.
Times(x, y) ==
    IF x.kind = "nan" \/ y.kind = "nan" THEN NaN
    ELSE IF x.kind = "inf" THEN (IF IsZero(y) THEN NaN ELSE PosInf)
    ELSE IF y.kind = "inf" THEN (IF IsZero(x) THEN NaN ELSE PosInf)
    ELSE Fin(x.num * y.num, x.den * y.den)

\* int(x).  A value int cannot hold converts to an implementation-dependent
\* int: the smallest int on amd64, the largest int (for +Inf) or 0 (for NaN)
\* where the conversion saturates.  A finite value is truncated; the product
\* of two rounded logarithms lies within rounding of num/den, so at a whole
\* number q >= 1 the truncation gives q or q - 1.
IntOf(x) ==
    IF x.kind = "nan" THEN {MinInt, 0}
    ELSE IF x.kind = "inf" THEN {MinInt, MaxInt}
    ELSE IF x.num % x.den = 0 /\ x.num >= x.den
         THEN {(x.num \div x.den) - 1, x.num \div x.den}
         ELSE {x.num \div x.den}

\* A validation that does not look at MaxLevel.
validateWithoutMaxLevel(cfg) ==
    IF cfg.M <= 0 THEN "m must be positive"
    ELSE IF cfg.Mmax <= 0 THEN "mmax must be positive"
    ELSE IF cfg.Mmax0 <= 0 THEN "Mmax0 must be positive"
    ELSE IF cfg.EfConstruction <= 0 THEN "EfConstruction must be positive"
    ELSE IF cfg.DistanceFunc = "nil" THEN "DistanceFunc must be provided"
    ELSE "nil"

\* validateConfig: the error it returns, "nil" for none.
validateConfig(cfg) ==
    IF cfg.M <= 0 THEN "m must be positive"
    ELSE IF cfg.Mmax <= 0 THEN "mmax must be positive"
    ELSE IF cfg.Mmax0 <= 0 THEN "Mmax0 must be positive"
    ELSE IF cfg.EfConstruction <= 0 THEN "EfConstruction must be positive"
    ELSE IF cfg.MaxLevel <= 0 THEN "MaxLevel must be positive"
    ELSE IF cfg.DistanceFunc = "nil" THEN "DistanceFunc must be provided"
    ELSE "nil"

\* The nil *HNSW.
NilIndex == [nil |-> TRUE]

\* h := &HNSW{...}
NewIndex(cfg) ==
    [M |-> cfg.M, Mmax |-> cfg.Mmax, Mmax0 |-> cfg.Mmax0,
     mL |-> Reciprocal(LogOf(cfg.M)),
     EfConstruction |-> cfg.EfConstruction, MaxLevel |-> cfg.MaxLevel,
     DistanceFunc |-> cfg.DistanceFunc,
     Nodes |-> <<>>, EntryPoint |-> NoNode]

Returned(h, err) == [h |-> h, err |-> err]

NewHNSWWith(cfg, err) ==
    IF err # "nil" THEN Returned(NilIndex, err) ELSE Returned(NewIndex(cfg), "nil")

NewHNSW(cfg) == NewHNSWWith(cfg, validateConfig(cfg))

\* if level > h.MaxLevel { level = h.MaxLevel }
CapLevel(level, maxLevel) == IF level > maxLevel THEN maxLevel ELSE level

\* The levels RandomLevel can return when h.RandFunc() returns r.
RandomLevel(h, r) == {CapLevel(l, h.MaxLevel) : l \in IntOf(Times(NegLog(r), h.mL))}

\* The configurations and random values tried.
ConfigMs == {-1, 0} \cup {Pow2(e) : e \in 0..MaxLogM}

ConfigValues == -1..MaxCfg

DistanceFuncs == {"nil", "EuclideanDistance"}

Configs ==
    [M : ConfigMs, Mmax : ConfigValues, Mmax0 : ConfigValues,
     EfConstruction : ConfigValues, MaxLevel : ConfigValues,
     DistanceFunc : DistanceFuncs]

RandValues == {RandValue(TRUE, 0)} \cup {RandValue(FALSE, k) : k \in 0..MaxExp}

\* The call of NewHNSW(cfg) that makes the index.
Construct(cfg) ==
    /\ lastCall = None
    /\ \E ret \in {NewHNSW(cfg)} :
           lastCall' = [kind |-> "NewHNSW", cfg |-> cfg, err |-> ret.err, h |-> ret.h]
    /\ UNCHANGED <<Nodes, EntryPoint, visitStamp, visited, mutex, inserts, committed,
                   lastInsert, lastQuery, memoQuery, nQueries, searches,
                   cacheVars, heapVars, pooledVars, layerVars>>

\* A call of h.RandomLevel() on the index NewHNSW returned, with
\* h.RandFunc() returning r.
DrawLevel(r) ==
    /\ lastCall.kind \in {"NewHNSW", "RandomLevel"}
    /\ lastCall.err = "nil"
    /\ \E level \in RandomLevel(lastCall.h, r) :
           lastCall' = [kind |-> "RandomLevel", cfg |-> lastCall.cfg, err |-> "nil",
                        h |-> lastCall.h, r |-> r, level |-> level]
    /\ UNCHANGED <<Nodes, EntryPoint, visitStamp, visited, mutex, inserts, committed,
                   lastInsert, lastQuery, memoQuery, nQueries, searches,
                   cacheVars, heapVars, pooledVars, layerVars>>

NextConfig ==
    \/ \E cfg \in Configs : Construct(cfg)
    \/ \E r \in RandValues : DrawLevel(r)

SpecConfig == Init /\ [][NextConfig]_vars

----------------------------------------------------------------------------
(* The same query asked with two values of ef on one index.                *)

\* KNN_Search(query, K, ef1) and then KNN_Search(query, K, ef2) with a wider beam.
AskBoth(query, K, ef1, ef2) ==
    /\ lastCall = None
    /\ inserts = {}
    /\ Len(Nodes) > 0
    /\ CanRLock(mutex)
    /\ ef1 < ef2
    /\ \E a \in {KNN_Search(CurrentIndex, query, K, ef1)} :
           \E b \in {KNN_Search(Index(Nodes, EntryPoint, a.visitStamp, a.visited),
                                query, K, ef2)} :
               /\ visitStamp' = b.visitStamp
               /\ visited' = b.visited
               /\ lastCall' = [kind |-> "ef", query |-> query, K |-> K,
                               ef1 |-> ef1, ef2 |-> ef2,
                               first |-> [status |-> a.status, ids |-> a.ids],
                               second |-> [status |-> b.status, ids |-> b.ids]]
    /\ UNCHANGED <<Nodes, EntryPoint, mutex, inserts, committed, lastInsert,
                   lastQuery, memoQuery, nQueries, searches,
                   cacheVars, heapVars, pooledVars, layerVars>>

\* The index with a visit-stamp array for MaxEfBuild nodes.
InitEf ==
    /\ Nodes = <<>>
    /\ EntryPoint = NoNode
    /\ visitStamp = 0
    /\ visited = [i \in 0..(MaxEfBuild - 1) |-> 0]
    /\ mutex = [writer |-> FALSE, readers |-> 0]
    /\ inserts = {}
    /\ committed = Snapshot(<<>>, NoNode)
    /\ lastInsert = None
    /\ lastQuery = None
    /\ memoQuery = None
    /\ nQueries = 0
    /\ searches = [t \in Threads |-> Stopped]
    /\ lastCall = None
    /\ cacheArrays = <<newDistanceCache(InitialCapacity)>>
    /\ globalDistanceCache = 1
    /\ cacheCalls = [t \in Threads |-> Stopped]
    /\ minHeap = <<>>
    /\ maxHeap = <<>>
    /\ pushed = [heap \in {"min", "max"} |-> [n \in Items |-> 0]]
    /\ minHeapPool = {}
    /\ maxHeapPool = {}
    /\ pooledSearch = NoPooledSearch
    /\ nodeHeapPool = NewNodeHeapPool
    /\ layerCall = NoLayerCall

\* One Insert from Lock() to the deferred Unlock(), while the index is built;
\* the inserts all return before the query is asked, and at most MaxUpper
\* of the levels drawn are above layer 0.
EfBuild(vector, level) ==
    /\ lastCall = None
    /\ Len(Nodes) < MaxEfBuild
    /\ level > 0 => Cardinality({i \in 1..Len(Nodes) : Nodes[i].Level > 0}) < MaxUpper
    /\ CanLock(mutex)
    /\ \E r \in {InsertCall(CurrentIndex, vector, level, Len(Nodes))} :
           /\ Nodes' = r.h.Nodes
           /\ EntryPoint' = r.h.EntryPoint
           /\ visitStamp' = r.h.visitStamp
           /\ visited' = r.h.visited
    /\ UNCHANGED <<mutex, inserts, committed, lastInsert, lastQuery, memoQuery,
                   nQueries, searches, lastCall,
                   cacheVars, heapVars, pooledVars, layerVars>>

NextEf ==
    \/ \E vector \in Vectors, level \in 0..MaxLevel : EfBuild(vector, level)
    \/ \E query \in Vectors, K \in 1..MaxK, ef1 \in 1..MaxEfTried, ef2 \in 1..MaxEfTried :
           AskBoth(query, K, ef1, ef2)

SpecEf == InitEf /\ [][NextEf]_vars

----------------------------------------------------------------------------
(* The distance cache: computeAndCacheDistance on h.globalDistanceCache.   *)

\* "if node.ID < len(cache) { dist := cache[node.ID]; if dist >= 0 { return dist } }"
CacheHit(cache, id) == id < Len(cache) /\ cache[id + 1] >= 0

\* "for newLen <= node.ID { newLen *= 2 }" from newLen on.
RECURSIVE GrownLen(_, _)
GrownLen(newLen, id) == IF newLen <= id THEN GrownLen(newLen * 2, id) ELSE newLen

\* newCache: a copy of cache, filled up with -1 to the grown length.
GrowCache(cache, id) ==
    [i \in 1..GrownLen(IF Len(cache) = 0 THEN 1 ELSE Len(cache), id) |->
        IF i <= Len(cache) THEN cache[i] ELSE -1]

\* One call that runs alone, on the arrays allocated so far and the array in
\* use: [dist |-> what it returns, arrays, cache |-> the array in use after it].
computeAndCacheDistance(arrays, current, query, id, vector) ==
    IF CacheHit(arrays[current], id)
    THEN [dist |-> arrays[current][id + 1], arrays |-> arrays, cache |-> current]
    ELSE LET dist == DistanceFunc(query, vector)
             grows == id >= Len(arrays[current])
             cache == IF grows THEN Len(arrays) + 1 ELSE current
             grown == IF grows THEN Append(arrays, GrowCache(arrays[current], id))
                      ELSE arrays
         IN  [dist |-> dist,
              arrays |-> IF grown[cache][id + 1] < 0
                         THEN [grown EXCEPT ![cache][id + 1] = dist]
                         ELSE grown,
              cache |-> cache]

\* h.computeAndCacheDistance(query, &structs.Node{ID: id, Vector: vector}),
\* from entry to return, with no other call running.
ComputeAndCache(query, id, vector) ==
    /\ \A t \in Threads : cacheCalls[t] = Stopped
    /\ \E r \in {computeAndCacheDistance(cacheArrays, globalDistanceCache, query, id, vector)} :
           /\ cacheArrays' = r.arrays
           /\ globalDistanceCache' = r.cache
           /\ lastCall' = [kind |-> "cache", query |-> query, id |-> id,
                           vector |-> vector, dist |-> r.dist]
    /\ UNCHANGED <<Nodes, EntryPoint, visitStamp, visited, mutex, inserts, committed,
                   lastInsert, lastQuery, memoQuery, nQueries, searches,
                   cacheCalls, heapVars, pooledVars, layerVars>>

NextCache ==
    \E query \in Vectors, id \in 0..MaxCacheId, vector \in Vectors :
        ComputeAndCache(query, id, vector)

SpecCache == Init /\ [][NextCache]_vars

\* Calls of computeAndCacheDistance by several goroutines, step by step.  No
\* lock is taken: the steps of different calls interleave.  The slice header
\* h.globalDistanceCache.cache is read and written as a whole here.
\* A frame is [pc, query, id, vector, cache |-> the call's local variable
\* cache, dist, wrote, outside].

\* Entry, by a goroutine that is in no call: "cache := h.globalDistanceCache.cache",
\* the hit test, and on a miss the computation of dist.
CacheLookup(t, query, id, vector) ==
    /\ cacheCalls[t].pc \in {"idle", "done"}
    /\ cacheCalls' = [cacheCalls EXCEPT ![t] =
          [pc |-> IF CacheHit(cacheArrays[globalDistanceCache], id) THEN "done" ELSE "grow",
           query |-> query, id |-> id, vector |-> vector,
           cache |-> globalDistanceCache,
           dist |-> IF CacheHit(cacheArrays[globalDistanceCache], id)
                    THEN cacheArrays[globalDistanceCache][id + 1]
                    ELSE DistanceFunc(query, vector),
           wrote |-> FALSE, outside |-> FALSE]]
    /\ UNCHANGED <<Nodes, EntryPoint, visitStamp, visited, mutex, inserts, committed,
                   lastInsert, lastQuery, memoQuery, nQueries, searches, lastCall,
                   cacheArrays, globalDistanceCache, heapVars, pooledVars, layerVars>>

\* "if node.ID >= len(cache) { ... h.globalDistanceCache.cache = newCache; cache = newCache }"
CacheGrowth(t) ==
    /\ cacheCalls[t].pc = "grow"
    /\ IF cacheCalls[t].id >= Len(cacheArrays[cacheCalls[t].cache])
       THEN /\ cacheArrays' = Append(cacheArrays,
                                     GrowCache(cacheArrays[cacheCalls[t].cache], cacheCalls[t].id))
            /\ globalDistanceCache' = Len(cacheArrays) + 1
            /\ cacheCalls' = [cacheCalls EXCEPT ![t].pc = "store",
                                                ![t].cache = Len(cacheArrays) + 1]
       ELSE /\ cacheCalls' = [cacheCalls EXCEPT ![t].pc = "store"]
            /\ UNCHANGED <<cacheArrays, globalDistanceCache>>
    /\ UNCHANGED <<Nodes, EntryPoint, visitStamp, visited, mutex, inserts, committed,
                   lastInsert, lastQuery, memoQuery, nQueries, searches, lastCall,
                   heapVars, pooledVars, layerVars>>

\* "if cache[node.ID] < 0 { cache[node.ID] = dist }; return dist"
CacheStore(t) ==
    /\ cacheCalls[t].pc = "store"
    /\ IF cacheArrays[cacheCalls[t].cache][cacheCalls[t].id + 1] < 0
       THEN /\ cacheArrays' = [cacheArrays EXCEPT
                                  ![cacheCalls[t].cache][cacheCalls[t].id + 1] = cacheCalls[t].dist]
            /\ cacheCalls' = [cacheCalls EXCEPT
                                  ![t].pc = "done",
                                  ![t].wrote = TRUE,
                                  ![t].outside = (cacheCalls[t].cache # globalDistanceCache)]
       ELSE /\ cacheCalls' = [cacheCalls EXCEPT ![t].pc = "done"]
            /\ UNCHANGED cacheArrays
    /\ UNCHANGED <<Nodes, EntryPoint, visitStamp, visited, mutex, inserts, committed,
                   lastInsert, lastQuery, memoQuery, nQueries, searches, lastCall,
                   globalDistanceCache, heapVars, pooledVars, layerVars>>

\* The goroutines ask for one query; the node with id i holds the vector <<i>>.
NextCacheRace ==
    \/ \E t \in Threads, id \in 0..MaxCacheId : CacheLookup(t, <<0>>, id, <<id>>)
    \/ \E t \in Threads : CacheGrowth(t)
    \/ \E t \in Threads : CacheStore(t)

SpecCacheRace == Init /\ [][NextCacheRace]_vars

----------------------------------------------------------------------------
(* Push and Pop on a MinHeap and a MaxHeap, in any order.                  *)

\* minHeap.Push(n), while the heaps hold fewer than bound items together.
MinPush(n, bound) ==
    /\ Len(minHeap) + Len(maxHeap) < bound
    /\ minHeap' = MinHeapPush(minHeap, n)
    /\ pushed' = [pushed EXCEPT !["min"][n] = @ + 1]
    /\ lastCall' = [kind |-> "push", heap |-> "min"]
    /\ UNCHANGED <<Nodes, EntryPoint, visitStamp, visited, mutex, inserts, committed,
                   lastInsert, lastQuery, memoQuery, nQueries, searches,
                   cacheVars, pooledVars, layerVars, maxHeap, minHeapPool, maxHeapPool>>

\* minHeap.Pop(): nil on an empty heap, the root otherwise.
MinPop ==
    /\ IF Len(minHeap) = 0
       THEN /\ lastCall' = [kind |-> "pop", heap |-> "min", nil |-> TRUE]
            /\ UNCHANGED <<minHeap, pushed>>
       ELSE \E r \in {MinHeapPop(minHeap)} :
               /\ minHeap' = r.heap
               /\ pushed' = [pushed EXCEPT !["min"][r.item] = @ - 1]
               /\ lastCall' = [kind |-> "pop", heap |-> "min", nil |-> FALSE, item |-> r.item]
    /\ UNCHANGED <<Nodes, EntryPoint, visitStamp, visited, mutex, inserts, committed,
                   lastInsert, lastQuery, memoQuery, nQueries, searches,
                   cacheVars, pooledVars, layerVars, maxHeap, minHeapPool, maxHeapPool>>

\* maxHeap.Push(n), while the heaps hold fewer than bound items together.
MaxPush(n, bound) ==
    /\ Len(minHeap) + Len(maxHeap) < bound
    /\ maxHeap' = MaxHeapPush(maxHeap, n)
    /\ pushed' = [pushed EXCEPT !["max"][n] = @ + 1]
    /\ lastCall' = [kind |-> "push", heap |-> "max"]
    /\ UNCHANGED <<Nodes, EntryPoint, visitStamp, visited, mutex, inserts, committed,
                   lastInsert, lastQuery, memoQuery, nQueries, searches,
                   cacheVars, pooledVars, layerVars, minHeap, minHeapPool, maxHeapPool>>

\* maxHeap.Pop(): nil on an empty heap, the root otherwise.
MaxPop ==
    /\ IF Len(maxHeap) = 0
       THEN /\ lastCall' = [kind |-> "pop", heap |-> "max", nil |-> TRUE]
            /\ UNCHANGED <<maxHeap, pushed>>
       ELSE \E r \in {MaxHeapPop(maxHeap)} :
               /\ maxHeap' = r.heap
               /\ pushed' = [pushed EXCEPT !["max"][r.item] = @ - 1]
               /\ lastCall' = [kind |-> "pop", heap |-> "max", nil |-> FALSE, item |-> r.item]
    /\ UNCHANGED <<Nodes, EntryPoint, visitStamp, visited, mutex, inserts, committed,
                   lastInsert, lastQuery, memoQuery, nQueries, searches,
                   cacheVars, pooledVars, layerVars, minHeap, minHeapPool, maxHeapPool>>

NextHeap ==
    \/ \E n \in Items : MinPush(n, MaxHeld)
    \/ MinPop
    \/ \E n \in Items : MaxPush(n, MaxHeld)
    \/ MaxPop

SpecHeap == Init /\ [][NextHeap]_vars

----------------------------------------------------------------------------
(* HeapPoolManager: heaps taken from and put back into two sync.Pools.     *)

\* A Reset that keeps the items.
KeepNodes(nodes) == nodes

\* heap.Reset(): "h.nodes = h.nodes[:0]".
Reset(nodes) == SubSeq(nodes, 1, 0)

\* p.GetMinHeap(): sync.Pool.Get hands out one of the heaps put back, or a
\* new one from NewMinHeap; the heap is reset and returned to the caller.
GetMinHeap ==
    /\ \E taken \in [new : {TRUE}, nodes : {<<>>}]
                      \cup [new : {FALSE}, nodes : minHeapPool] :
           /\ minHeapPool' = IF taken.new THEN minHeapPool ELSE minHeapPool \ {taken.nodes}
           /\ minHeap' = Reset(taken.nodes)
           /\ lastCall' = [kind |-> "get", heap |-> "min", held |-> Len(taken.nodes),
                           returned |-> Reset(taken.nodes)]
    /\ pushed' = [pushed EXCEPT !["min"] = [n \in Items |-> 0]]
    /\ UNCHANGED <<Nodes, EntryPoint, visitStamp, visited, mutex, inserts, committed,
                   lastInsert, lastQuery, memoQuery, nQueries, searches,
                   cacheVars, pooledVars, layerVars, maxHeap, maxHeapPool>>

\* p.PutMinHeap(heap) with the heap in the caller's hands, as it is.  The
\* caller gives it up: what it pushes on next is a heap from NewMinHeap or Get.
PutMinHeap ==
    /\ Cardinality(minHeapPool \cup {minHeap}) <= MaxPooled
    /\ minHeapPool' = minHeapPool \cup {minHeap}
    /\ minHeap' = <<>>
    /\ pushed' = [pushed EXCEPT !["min"] = [n \in Items |-> 0]]
    /\ lastCall' = [kind |-> "put", heap |-> "min"]
    /\ UNCHANGED <<Nodes, EntryPoint, visitStamp, visited, mutex, inserts, committed,
                   lastInsert, lastQuery, memoQuery, nQueries, searches,
                   cacheVars, pooledVars, layerVars, maxHeap, maxHeapPool>>

\* p.GetMaxHeap().
GetMaxHeap ==
    /\ \E taken \in [new : {TRUE}, nodes : {<<>>}]
                      \cup [new : {FALSE}, nodes : maxHeapPool] :
           /\ maxHeapPool' = IF taken.new THEN maxHeapPool ELSE maxHeapPool \ {taken.nodes}
           /\ maxHeap' = Reset(taken.nodes)
           /\ lastCall' = [kind |-> "get", heap |-> "max", held |-> Len(taken.nodes),
                           returned |-> Reset(taken.nodes)]
    /\ pushed' = [pushed EXCEPT !["max"] = [n \in Items |-> 0]]
    /\ UNCHANGED <<Nodes, EntryPoint, visitStamp, visited, mutex, inserts, committed,
                   lastInsert, lastQuery, memoQuery, nQueries, searches,
                   cacheVars, pooledVars, layerVars, minHeap, minHeapPool>>

\* p.PutMaxHeap(heap).
PutMaxHeap ==
    /\ Cardinality(maxHeapPool \cup {maxHeap}) <= MaxPooled
    /\ maxHeapPool' = maxHeapPool \cup {maxHeap}
    /\ maxHeap' = <<>>
    /\ pushed' = [pushed EXCEPT !["max"] = [n \in Items |-> 0]]
    /\ lastCall' = [kind |-> "put", heap |-> "max"]
    /\ UNCHANGED <<Nodes, EntryPoint, visitStamp, visited, mutex, inserts, committed,
                   lastInsert, lastQuery, memoQuery, nQueries, searches,
                   cacheVars, pooledVars, layerVars, minHeap, minHeapPool>>

\* The callers push items of id 0 between Get and Put.
NextPool ==
    \/ \E n \in {m \in Items : m.Id = 0} : MinPush(n, MaxPooledLen)
    \/ \E n \in {m \in Items : m.Id = 0} : MaxPush(n, MaxPooledLen)
    \/ GetMinHeap
    \/ PutMinHeap
    \/ GetMaxHeap
    \/ PutMaxHeap

SpecPool == Init /\ [][NextPool]_vars

----------------------------------------------------------------------------
(* The pooled searchLayer step by step, on an index built by Insert.       *)

pooledUnchanged ==
    UNCHANGED <<Nodes, EntryPoint, visitStamp, visited, mutex, inserts, committed,
                lastInsert, lastQuery, memoQuery, nQueries, searches, lastCall,
                cacheVars, heapVars, layerVars>>

\* An Insert that builds the index the pooled search runs on.
PooledBuild(vector, level) ==
    /\ pooledSearch.pc = "idle"
    /\ Len(Nodes) < MaxPooledNodes
    /\ InsertLock(vector, level)

\* searchLayer up to its loop: the containers are taken from their pools, the
\* entry's item is made and pushed on both heaps, the entry is marked.
PooledBegin(query, entry, ef) ==
    /\ pooledSearch.pc \in {"idle", "done", "failed"}
    /\ pooledSearch.calls < MaxPooledCalls
    /\ inserts = {}
    /\ entry \in 0..(Len(Nodes) - 1)
    /\ \E ptr \in Available(nodeHeapPool) :
         \E st \in {PushBoth(
                      getNodeHeap(
                        [f |-> [NoPooledSearch EXCEPT !.pc = "pop",
                                                      !.calls = pooledSearch.calls + 1,
                                                      !.query = query,
                                                      !.entry = entry,
                                                      !.ef = ef,
                                                      !.visited = {entry},
                                                      !.held = PooledContainers],
                         pool |-> nodeHeapPool],
                        ptr, DistanceFunc(query, NodeAt(Nodes, entry).Vector), entry),
                      ptr)} :
            /\ pooledSearch' = st.f
            /\ nodeHeapPool' = st.pool
    /\ pooledUnchanged

\* The top of "for candidates.Len() > 0": Pop, the refresh of furthestDist
\* when it is 0 or the length of nearest changed, the break test, and
\* h.Nodes[currentID], which panics when the id is not a slot of the store;
\* the deferred function then puts the containers back.
PooledPop ==
    /\ pooledSearch.pc = "pop"
    /\ IF Len(pooledSearch.candidates) = 0
       THEN pooledSearch' = [pooledSearch EXCEPT !.pc = "drain"]
       ELSE \E popped \in {MinHeapPop(pooledSearch.candidates)} :
            \E refresh \in {Len(pooledSearch.nearest) > 0
                              /\ (pooledSearch.furthestDist = 0
                                    \/ Len(pooledSearch.nearest) # pooledSearch.lastNearestLen)} :
            \E f \in {[pooledSearch EXCEPT
                         !.candidates = popped.heap,
                         !.furthestDist = IF refresh THEN pooledSearch.nearest[1].Dist ELSE @,
                         !.lastNearestLen = IF refresh THEN Len(pooledSearch.nearest) ELSE @]} :
               IF popped.item.Dist > f.furthestDist
               THEN pooledSearch' = [f EXCEPT !.pc = "drain"]
               ELSE IF popped.item.Id \notin 0..(Len(Nodes) - 1)
               THEN pooledSearch' = [f EXCEPT !.pc = "failed", !.held = {}]
               ELSE IF Len(LayerList(NodeAt(Nodes, popped.item.Id), f.level)) = 0
               THEN pooledSearch' = f
               ELSE pooledSearch' = [f EXCEPT !.pc = "scan",
                                              !.current = popped.item.Id,
                                              !.i = 1]
    /\ UNCHANGED nodeHeapPool
    /\ pooledUnchanged

\* One neighbour of the current node: skipped when visited, else marked and,
\* when admitted, given an item that is pushed on both heaps; the furthest of
\* nearest is then popped and put to the pool when nearest is longer than ef.
PooledVisit ==
    /\ pooledSearch.pc = "scan"
    /\ \E nbrs \in {NeighborsAt(Nodes, pooledSearch.current, pooledSearch.level)} :
       \E neighbor \in {nbrs[pooledSearch.i]} :
       \E next \in {IF pooledSearch.i = Len(nbrs)
                    THEN [pooledSearch EXCEPT !.pc = "pop"]
                    ELSE [pooledSearch EXCEPT !.i = @ + 1]} :
          IF neighbor \in pooledSearch.visited
          THEN /\ pooledSearch' = next
               /\ UNCHANGED nodeHeapPool
          ELSE \E dist \in {DistanceFunc(pooledSearch.query, NodeAt(Nodes, neighbor).Vector)} :
               \E st \in {[f |-> [next EXCEPT !.visited = @ \cup {neighbor}],
                           pool |-> nodeHeapPool]} :
                  IF Admits(dist, pooledSearch.furthestDist, Len(pooledSearch.nearest),
                            pooledSearch.ef)
                  THEN \E ptr \in GetNodeHeapChoices(st, neighbor) :
                       \E after \in {EvictToPool(
                                       PushBoth(getNodeHeap(st, ptr, dist, neighbor), ptr),
                                       pooledSearch.ef)} :
                          /\ pooledSearch' = after.f
                          /\ nodeHeapPool' = after.pool
                  ELSE /\ pooledSearch' = st.f
                       /\ UNCHANGED nodeHeapPool
    /\ pooledUnchanged

\* After the loop: nearest is drained into results through h.Nodes[item.Id],
\* every item of nodeHeapMap is put to the pool, and the deferred function
\* puts the containers back.
PooledReturn ==
    /\ pooledSearch.pc = "drain"
    /\ IF \E k \in 1..Len(pooledSearch.nearest) :
             pooledSearch.nearest[k].Id \notin 0..(Len(Nodes) - 1)
       THEN /\ pooledSearch' = [pooledSearch EXCEPT !.pc = "failed", !.held = {}]
            /\ UNCHANGED nodeHeapPool
       ELSE \E st \in {PutMapped(
                         [f |-> [pooledSearch EXCEPT
                                    !.results = DrainNearest(pooledSearch.nearest),
                                    !.nearest = <<>>],
                          pool |-> nodeHeapPool],
                         0)} :
               /\ pooledSearch' = [st.f EXCEPT !.pc = "done", !.held = {}]
               /\ nodeHeapPool' = st.pool
    /\ pooledUnchanged

NextPooled ==
    \/ \E vector \in Vectors, level \in 0..MaxLevel : PooledBuild(vector, level)
    \/ InsertConnect
    \/ InsertReturn
    \/ \E query \in Vectors, entry \in 0..(MaxPooledNodes - 1), ef \in 1..MaxEf :
          PooledBegin(query, entry, ef)
    \/ PooledPop
    \/ PooledVisit
    \/ PooledReturn

SpecPooled == Init /\ [][NextPooled]_vars

----------------------------------------------------------------------------
(* Insert calls issued at the same time with the ids 0..MaxShuffled-1: each *)
(* runs under the write lock from Lock() to Unlock(), so the calls take    *)
(* effect one after another, in the order in which they get the lock.      *)

\* The call with this id gets the lock next; no call with this id ran before.
InsertAnyOrder(vector, level, id) ==
    /\ Len(Nodes) < MaxShuffled
    /\ \A i \in 1..Len(Nodes) : Nodes[i].ID # id
    /\ CallInsert(vector, level, id)

NextShuffled ==
    \E vector \in Vectors, level \in 0..MaxLevel, id \in 0..(MaxShuffled - 1) :
        InsertAnyOrder(vector, level, id)

SpecShuffled == Init /\ [][NextShuffled]_vars

----------------------------------------------------------------------------
(* The layer searches move by move, on any graph.  The index holds         *)
(* MaxGraph nodes with any vectors and any neighbour lists of up to        *)
(* MaxFanOut other nodes, cycles and nodes at equal distance included;     *)
(* a node's list is the same on its two layers.  One Insert or KNN_Search  *)
(* runs on it: a step is one pass of the loop of greedySearchLayer, the    *)
(* start of searchLayer, one iteration of its loop, the linking of the new *)
(* node at a layer, or the return with the deferred unlock.  A goroutine   *)
(* that is inside a call keeps being scheduled, so every step of a call    *)
(* that has started is taken under weak fairness; nothing obliges a caller *)
(* to start a call.                                                        *)

GraphIds == 0..(MaxGraph - 1)

GraphVectors == {<<x>> : x \in 0..MaxGraphCoord}

\* The neighbour lists of at most MaxFanOut distinct ids.
RECURSIVE GraphLists(_)
GraphLists(n) ==
    IF n = 0 THEN {<<>>}
    ELSE GraphLists(n - 1) \cup
         {Append(l, a) : l \in {k \in GraphLists(n - 1) : Len(k) = n - 1},
                         a \in GraphIds}

GraphNode(id, vector, list) ==
    [ID |-> id, Vector |-> vector, Level |-> 1, Neighbors |-> <<list, list>>]

\* The lists a node may hold: distinct ids of other nodes.
ListsOfNode(id) ==
    {k \in GraphLists(MaxFanOut) : Cardinality(Range(k)) = Len(k) /\ id \notin Range(k)}

Graphs ==
    {[i \in 1..MaxGraph |-> GraphNode(i - 1, v[i], l[i])] :
        v \in [1..MaxGraph -> GraphVectors],
        l \in {f \in [1..MaxGraph -> GraphLists(MaxFanOut)] :
                   \A i \in 1..MaxGraph : f[i] \in ListsOfNode(i - 1)}}

InitLayers ==
    /\ Nodes \in Graphs
    /\ EntryPoint = 0
    /\ visitStamp = 0
    /\ visited = [i \in 0..(MaxNodes - 1) |-> 0]
    /\ mutex = [writer |-> FALSE, readers |-> 0]
    /\ inserts = {}
    /\ committed = Snapshot(<<>>, NoNode)
    /\ lastInsert = None
    /\ lastQuery = None
    /\ memoQuery = None
    /\ nQueries = 0
    /\ searches = [t \in Threads |-> Stopped]
    /\ lastCall = None
    /\ cacheArrays = <<newDistanceCache(InitialCapacity)>>
    /\ globalDistanceCache = 1
    /\ cacheCalls = [t \in Threads |-> Stopped]
    /\ minHeap = <<>>
    /\ maxHeap = <<>>
    /\ pushed = [heap \in {"min", "max"} |-> [n \in Items |-> 0]]
    /\ minHeapPool = {}
    /\ maxHeapPool = {}
    /\ pooledSearch = NoPooledSearch
    /\ nodeHeapPool = NewNodeHeapPool
    /\ layerCall = NoLayerCall

layerUnchanged ==
    UNCHANGED <<inserts, committed, lastInsert, lastQuery, memoQuery, nQueries, searches,
                lastCall, cacheVars, heapVars, pooledVars>>

\* The frame of a call: what it was called with, where its descent stands
\* (layer lc, entry ep), the locals of the layer search that runs, and what
\* the searches did so far: the greedy moves made (counted up to MaxGraph),
\* and for the searchLayer
\* call that runs the times each id was pushed on candidates and the nodes
\* whose neighbours were scanned.
LayerFrame(kind, query, K, ef, q, level, L, downTo, beamFrom) ==
    [pc |-> "greedy", kind |-> kind, query |-> query, K |-> K, ef |-> ef,
     q |-> q, level |-> level, L |-> L, downTo |-> downTo, beamFrom |-> beamFrom,
     lc |-> L, ep |-> NoNode, currentNode |-> NoNode, bestDist |-> 0,
     candidates |-> <<>>, nearest |-> <<>>, furthestDist |-> 0,
     moves |-> 0, pushes |-> [id \in 0..(MaxNodes - 1) |-> 0], expanded |-> {},
     status |-> "running", ids |-> <<>>]

\* The descent stands before layer lc with entry ep: greedySearchLayer runs
\* there while "lc > downTo" (bestDist := distance to the entry), and after
\* the last greedy layer searchLayer starts at layer beamFrom.
AtLayer(c, nodes, ep, lc) ==
    IF lc > c.downTo
    THEN [c EXCEPT !.pc = "greedy", !.lc = lc, !.ep = ep, !.currentNode = ep,
                   !.bestDist = DistanceFunc(c.query, NodeAt(nodes, ep).Vector)]
    ELSE [c EXCEPT !.pc = "start", !.lc = c.beamFrom, !.ep = ep]

\* Insert from h.mutex.Lock() to its first layer search: the node is made
\* and appended; phase 1 runs from L down to level+1, phase 2 from min(L, level).
LayerInsert(vector, level) ==
    /\ layerCall.pc = "idle"
    /\ CanLock(mutex)
    /\ mutex' = [mutex EXCEPT !.writer = TRUE]
    /\ \E q \in {Len(Nodes)}, L \in {NodeAt(Nodes, EntryPoint).Level} :
           /\ Nodes' = StoreNode(Nodes, NewNode(q, vector, level))
           /\ layerCall' = AtLayer(LayerFrame("Insert", vector, 0, EfConstruction, q, level,
                                              L, level, Min2(L, level)),
                                   Nodes', EntryPoint, L)
    /\ UNCHANGED <<EntryPoint, visitStamp, visited>>
    /\ layerUnchanged

\* KNN_Search from "if ef < K" and h.mutex.RLock() to its first layer search:
\* the greedy descent runs from the entry point's level down to layer 1.
LayerSearch(query, K, ef) ==
    /\ layerCall.pc = "idle"
    /\ CanRLock(mutex)
    /\ mutex' = [mutex EXCEPT !.readers = @ + 1]
    /\ \E L \in {NodeAt(Nodes, EntryPoint).Level} :
           layerCall' = AtLayer(LayerFrame("KNN_Search", query, K, EffectiveEf(K, ef),
                                           NoNode, 0, L, 0, 0),
                                Nodes, EntryPoint, L)
    /\ UNCHANGED <<Nodes, EntryPoint, visitStamp, visited>>
    /\ layerUnchanged

\* One pass of the "for" of greedySearchLayer: the neighbours are scanned up
\* to the first strictly closer one, which becomes the current node; with no
\* such neighbour the search returns and the descent goes one layer down.
LayerGreedy ==
    /\ layerCall.pc = "greedy"
    /\ \E nbrs \in {LayerList(NodeAt(Nodes, layerCall.currentNode), layerCall.lc)} :
       \E i \in {FirstImprovement(Nodes, layerCall.query, nbrs, layerCall.bestDist, 1)} :
           layerCall' =
               IF i = 0
               THEN AtLayer(layerCall, Nodes, layerCall.currentNode, layerCall.lc - 1)
               ELSE [layerCall EXCEPT
                        !.currentNode = nbrs[i],
                        !.bestDist = DistanceFunc(layerCall.query, NodeAt(Nodes, nbrs[i]).Vector),
                        !.moves = Min2(@ + 1, MaxGraph)]
    /\ UNCHANGED <<Nodes, EntryPoint, visitStamp, visited, mutex>>
    /\ layerUnchanged

\* How many items of a heap carry this id.
ItemsOf(heap, id) == Cardinality({i \in 1..Len(heap) : heap[i].Id = id})

\* searchLayer up to its loop: h.visitStamp++, the entry on both heaps, marked.
LayerStart ==
    /\ layerCall.pc = "start"
    /\ visitStamp' = NextVisitStamp(visitStamp)
    /\ \E start \in {SearchStart(visited, visitStamp', IdOf(Nodes, layerCall.ep),
                        DistanceFunc(layerCall.query, NodeAt(Nodes, layerCall.ep).Vector))} :
           /\ visited' = start.visited
           /\ layerCall' = [layerCall EXCEPT
                  !.pc = "loop",
                  !.candidates = start.candidates,
                  !.nearest = start.nearest,
                  !.furthestDist = start.furthestDist,
                  !.pushes = [id \in 0..(MaxNodes - 1) |-> ItemsOf(start.candidates, id)],
                  !.expanded = {}]
    /\ UNCHANGED <<Nodes, EntryPoint, mutex>>
    /\ layerUnchanged

\* Where a call goes when the loop of searchLayer ends: Insert links the new
\* node at this layer, KNN_Search returns.
AfterLoop(c) == IF c.kind = "Insert" THEN "link" ELSE "return"

\* One iteration of "for candidates.Len() > 0", or the exit of the loop.
LayerIterate ==
    /\ layerCall.pc = "loop"
    /\ IF Len(layerCall.candidates) = 0
       THEN /\ layerCall' = [layerCall EXCEPT !.pc = AfterLoop(layerCall)]
            /\ visited' = visited
       ELSE \E popped \in {MinHeapPop(layerCall.candidates)} :
            \E it \in {SearchIteration(Nodes, layerCall.query, layerCall.ef, layerCall.lc,
                                       visitStamp, LoopState(layerCall))} :
                /\ visited' = it.s.visited
                /\ layerCall' = [layerCall EXCEPT
                       !.pc = IF it.more THEN "loop" ELSE AfterLoop(layerCall),
                       !.candidates = it.s.candidates,
                       !.nearest = it.s.nearest,
                       !.furthestDist = it.s.furthestDist,
                       !.pushes = [id \in 0..(MaxNodes - 1) |->
                                      @[id] + ItemsOf(it.s.candidates, id)
                                            - ItemsOf(popped.heap, id)],
                       !.expanded = IF it.more THEN @ \cup {popped.item.Id} ELSE @]
    /\ UNCHANGED <<Nodes, EntryPoint, visitStamp, mutex>>
    /\ layerUnchanged

\* The rest of a phase-2 iteration of Insert: the result is drained, the
\* neighbours are selected and linked both ways, the entry moves to the
\* closest node found, and the loop goes one layer down.
LayerLink ==
    /\ layerCall.pc = "link"
    /\ \E sl \in {SearchResult(visitStamp, LoopState(layerCall))} :
       \E neighbors \in {SelectNeighbors(sl.results, MaxConnFor(layerCall.lc))} :
       \E c \in {LinkSelected(CurrentIndex, layerCall.q, layerCall.ep, layerCall.lc,
                              sl, neighbors)} :
           /\ Nodes' = c.h.Nodes
           /\ layerCall' = [layerCall EXCEPT
                  !.pc = IF layerCall.lc = 0 THEN "return" ELSE "start",
                  !.lc = @ - 1,
                  !.ep = c.ep,
                  !.candidates = <<>>,
                  !.nearest = <<>>]
    /\ UNCHANGED <<EntryPoint, visitStamp, visited, mutex>>
    /\ layerUnchanged

\* The return of the call and its deferred unlock: Insert moves the entry
\* point to a higher new node and runs Unlock(); KNN_Search drains the result,
\* cuts it to K and runs RUnlock().
LayerReturn ==
    /\ layerCall.pc = "return"
    /\ IF layerCall.kind = "Insert"
       THEN /\ EntryPoint' = EntryPointAfter(EntryPoint, layerCall.L, layerCall.q, layerCall.level)
            /\ mutex' = [mutex EXCEPT !.writer = FALSE]
            /\ layerCall' = [layerCall EXCEPT !.pc = "done", !.status = "ok"]
       ELSE /\ EntryPoint' = EntryPoint
            /\ mutex' = [mutex EXCEPT !.readers = @ - 1]
            /\ \E ret \in {SliceTo(DrainNearest(layerCall.nearest), layerCall.K)} :
                   layerCall' = [layerCall EXCEPT !.pc = "done", !.status = ret.status,
                                                  !.ids = ret.ids, !.nearest = <<>>]
    /\ UNCHANGED <<Nodes, visitStamp, visited>>
    /\ layerUnchanged

NextLayers ==
    \/ \E vector \in GraphVectors, level \in 0..MaxLevel : LayerInsert(vector, level)
    \/ \E query \in GraphVectors, K \in 1..MaxLayerK, ef \in 1..MaxEf : LayerSearch(query, K, ef)
    \/ LayerGreedy
    \/ LayerStart
    \/ LayerIterate
    \/ LayerLink
    \/ LayerReturn

\* LayerLink is enabled exactly in the states where the call stands at
\* "link", and it always changes the frame.
LinkEnabled == layerCall.pc = "link"

\* Weak fairness of every step of a call that has started.  For LayerLink it
\* is written out, "infinitely often disabled or infinitely often taken",
\* with LinkEnabled for its enabling condition.
SpecLayers ==
    /\ InitLayers
    /\ [][NextLayers]_vars
    /\ WF_vars(LayerGreedy)
    /\ WF_vars(LayerStart)
    /\ WF_vars(LayerIterate)
    /\ WF_vars(LayerReturn)
    /\ ([]<>(~LinkEnabled) \/ []<><<LayerLink>>_vars)

----------------------------------------------------------------------------
(* Properties of the index.                                                *)

\* No Insert is between its Lock() and its Unlock().
Idle == inserts = {}

StoredIds == 0..(Len(Nodes) - 1)

LevelOf(id) == NodeAt(Nodes, id).Level

ListOf(id, l) == Range(NeighborsAt(Nodes, id, l))

\* C1 - Bounded fan-out: for every stored node n and every layer l <= n.Level,
\* the neighbour list of n at layer l has at most Mmax0 entries when l = 0 and
\* at most Mmax entries when l > 0.
BoundedFanOut ==
    \A n \in StoredIds : \A l \in 0..LevelOf(n) :
        Len(NeighborsAt(Nodes, n, l)) <= (IF l = 0 THEN Mmax0 ELSE Mmax)

\* An Insert that pruned a full list has completed, and lists are full at
\* layer 0 and above it.
FanOutAtLimit ==
    /\ Idle
    /\ lastInsert.kind = "insert"
    /\ lastInsert.pruned
    /\ \E n \in StoredIds : Len(NeighborsAt(Nodes, n, 0)) = Mmax0
    /\ \E n \in StoredIds : LevelOf(n) >= 1 /\ Len(NeighborsAt(Nodes, n, 1)) = Mmax

\* C2 - Edge symmetry: after every completed Insert, for all nodes n, m and
\* every layer l, m in neighbors(n, l) implies n in neighbors(m, l).
EdgeSymmetry ==
    Idle =>
        \A n \in StoredIds : \A l \in 0..LevelOf(n) : \A m \in ListOf(n, l) :
            l <= LevelOf(m) /\ n \in ListOf(m, l)

\* C3 - Entry-point dominance: after any sequence of Insert calls on a
\* non-empty index, the entry point is a stored node and no stored node has a
\* level higher than the entry point's level.
EntryPointDominance ==
    (Idle /\ Len(Nodes) > 0) =>
        /\ EntryPoint \in StoredIds
        /\ \A n \in StoredIds : LevelOf(n) <= LevelOf(EntryPoint)

\* An Insert of a node above the top layer has completed and moved the entry point.
EntryPointRaised ==
    /\ Idle
    /\ lastInsert.kind = "insert"
    /\ ~lastInsert.first
    /\ lastInsert.level > lastInsert.L
    /\ EntryPoint = lastInsert.q

\* C4 - Entry-point identity: after each Insert the entry point is the
\* earliest-inserted node among the nodes of maximum level; an Insert replaces
\* the entry point only when the new node's level is strictly greater than the
\* level of the entry point it found, and the first Insert makes its node the
\* entry point.
EntryPointIdentity ==
    (Idle /\ Len(Nodes) > 0) =>
        /\ EntryPoint \in StoredIds
        /\ \A n \in StoredIds :
              \/ LevelOf(n) < LevelOf(EntryPoint)
              \/ LevelOf(n) = LevelOf(EntryPoint) /\ n >= EntryPoint
        /\ lastInsert.kind = "insert"
        /\ IF lastInsert.first
           THEN EntryPoint = lastInsert.q
           ELSE EntryPoint = IF lastInsert.level > LevelOf(lastInsert.oldEntryPoint)
                             THEN lastInsert.q
                             ELSE lastInsert.oldEntryPoint

\* An Insert of a node at the level of the entry point has completed and the
\* earlier node is still the entry point.
EntryPointTieKept ==
    /\ Idle
    /\ lastInsert.kind = "insert"
    /\ ~lastInsert.first
    /\ lastInsert.level = lastInsert.L
    /\ lastInsert.level > 0
    /\ EntryPoint = lastInsert.oldEntryPoint
    /\ EntryPoint # lastInsert.q

\* C5 - Insert is atomic with respect to queries: while a KNN_Search holds the
\* read lock no Insert is past Lock(), and the node store, neighbour lists and
\* entry point are as the last completed Insert left them; two Inserts never
\* overlap.
InsertAtomic ==
    /\ Cardinality(inserts) <= 1
    /\ mutex.readers > 0 =>
          /\ inserts = {}
          /\ ~mutex.writer
          /\ Snapshot(Nodes, EntryPoint) = committed

\* A KNN_Search holds the read lock on an index that an Insert has linked.
QueryAfterInsert ==
    /\ mutex.readers > 0
    /\ lastInsert.kind = "insert"
    /\ ~lastInsert.first
    /\ Len(Nodes) >= 2

\* An Insert holds the write lock with the new node stored and not yet linked.
InsertInFlight ==
    /\ mutex.writer
    /\ \E f \in inserts : f.pc = "connect" /\ Snapshot(Nodes, EntryPoint) # committed

SliceQuery == lastQuery.kind = "query" /\ lastQuery.variant = "slice"

VectorOf(rec, id) == NodeAt(rec.index.Nodes, id).Vector

DistinctVectors(nodes) ==
    \A i, j \in 1..Len(nodes) : i # j => nodes[i].Vector # nodes[j].Vector

\* The stored node the query vector of this call belongs to, if any.
Holds(rec, n) == n \in 1..Len(rec.index.Nodes) /\ rec.index.Nodes[n].Vector = rec.query

\* C6 - Self-membership: on an index built from pairwise distinct vectors,
\* KNN_Search(n.Vector, K, ef) for a stored node n, K >= 1 and any ef returns
\* n as its first result, at distance 0.
SelfMembership ==
    (/\ SliceQuery
     /\ DistinctVectors(lastQuery.index.Nodes)
     /\ \E n \in 1..MaxNodes : Holds(lastQuery, n)) =>
        /\ lastQuery.status = "ok"
        /\ Len(lastQuery.ids) >= 1
        /\ VectorOf(lastQuery, lastQuery.ids[1]) = lastQuery.query

\* A call that returned normally on distinct vectors, for the vector of a
\* stored node, whose first result is another node.
SelfMissed ==
    /\ SliceQuery
    /\ DistinctVectors(lastQuery.index.Nodes)
    /\ \E n \in 1..MaxNodes : Holds(lastQuery, n)
    /\ lastQuery.status = "ok"
    /\ Len(lastQuery.ids) >= 1
    /\ VectorOf(lastQuery, lastQuery.ids[1]) # lastQuery.query

\* C7 - For K >= 1, KNN_Search returns an empty result if and only if the
\* index holds no node.
EmptyIffEmpty ==
    SliceQuery =>
        /\ lastQuery.status = "ok"
        /\ lastQuery.ids = <<>> <=> lastQuery.index.Nodes = <<>>

\* C8 - On a non-empty index KNN_Search returns exactly min(K, |W|) nodes and
\* does not fail when K is larger than the number of nodes found.
ReturnsUpToK ==
    (SliceQuery /\ lastQuery.index.Nodes # <<>>) =>
        /\ lastQuery.status = "ok"
        /\ Len(lastQuery.ids) = Min2(lastQuery.K, Len(lastQuery.W))

\* The ids of the beam result W of a call.
BeamIds(rec) == IF rec.variant = "slice" THEN Range(rec.W) ELSE rec.W

DistTo(rec, id) == DistanceFunc(rec.query, VectorOf(rec, id))

\* ids are the Min2(K, |W|) members of W closest to the query, closest first.
ClosestFirst(rec, ids, W) ==
    /\ Len(ids) = Min2(rec.K, Cardinality(W))
    /\ Range(ids) \subseteq W
    /\ \A i, j \in 1..Len(ids) : i < j => DistTo(rec, ids[i]) <= DistTo(rec, ids[j])
    /\ \A i \in 1..Len(ids) : \A w \in W \ Range(ids) : DistTo(rec, ids[i]) <= DistTo(rec, w)

\* C9 - A KNN_Search that returns gives the K members of the beam result W
\* closest to the query in non-decreasing order of distance, in the variant
\* that slices and in the variant that pops the heap alike.
ReturnsClosestOfW ==
    (lastQuery.kind = "query" /\ lastQuery.status = "ok") =>
        ClosestFirst(lastQuery, lastQuery.ids, BeamIds(lastQuery))

\* The same for the variant that slices alone.
SliceReturnsClosestOfW ==
    (SliceQuery /\ lastQuery.status = "ok") =>
        ClosestFirst(lastQuery, lastQuery.ids, BeamIds(lastQuery))

\* A call of the heap-popping variant with ef > K whose beam result holds
\* more than K nodes at different distances.
HeapQueryBeyondK ==
    /\ lastQuery.kind = "query"
    /\ lastQuery.variant = "heap"
    /\ lastQuery.ef > lastQuery.K
    /\ Cardinality(lastQuery.W) > lastQuery.K
    /\ \E a, b \in lastQuery.W : DistTo(lastQuery, a) # DistTo(lastQuery, b)

\* C10 - Query idempotence: on an index that receives no Insert in between,
\* a KNN_Search repeated with the same query, K and ef returns the same ids
\* in the same order, whatever other calls ran before.
QueryIdempotent ==
    (/\ lastQuery.kind = "query"
     /\ memoQuery.kind = "memo"
     /\ SameCall(memoQuery, lastQuery)
     /\ memoQuery.index = lastQuery.index) =>
        /\ lastQuery.status = memoQuery.status
        /\ lastQuery.ids = memoQuery.ids

\* A call was made on an index of several linked nodes, another call followed
\* it, and it was then repeated twice with a result of two nodes.
RepeatedAfterOthers ==
    /\ memoQuery.kind = "memo"
    /\ memoQuery.others >= 1
    /\ memoQuery.repeats >= 2
    /\ Len(memoQuery.index.Nodes) >= 3
    /\ Len(memoQuery.ids) >= 2
    /\ lastQuery.ids = memoQuery.ids

\* What a call returns when no other call runs during it.
FreshVisited == [i \in 0..(MaxNodes - 1) |-> 0]

RunAlone(query, K, ef) == KNN_Search(Index(Nodes, EntryPoint, 0, FreshVisited), query, K, ef)

SameAnswer(f, r) == f.status = r.status /\ f.ids = r.ids

\* C11 - Concurrent queries are isolated: a KNN_Search that ran under the
\* read lock while another one ran returns exactly what the same call returns
\* on this index when it runs alone.
ConcurrentIsolated ==
    \A t \in Threads :
        searches[t].pc = "done" =>
            SameAnswer(searches[t], RunAlone(searches[t].query, searches[t].K, searches[t].ef))

\* Two searches are inside their loops at once on an index of linked nodes.
SearchesOverlap ==
    /\ mutex.readers = 2
    /\ \A t \in Threads : searches[t].pc = "loop"
    /\ Len(Nodes) >= 2

\* C12 - No self-loops: no stored node lists itself at any of its layers,
\* in every state of an index built by Insert, also inside an Insert.
NoSelfLoops ==
    \A id \in StoredIds : \A l \in 0..LevelOf(id) : id \notin ListOf(id, l)

\* An Insert has returned whose back links rebuilt a full list from the
\* heap that holds q together with the old entries.
RebuiltListStored ==
    /\ Idle
    /\ lastInsert.kind = "insert"
    /\ lastInsert.pruned
    /\ \E l \in 0..LevelOf(lastInsert.q) : ListOf(lastInsert.q, l) # {}

Distinct(list) == Cardinality(Range(list)) = Len(list)

\* C13 - No duplicate neighbours: within one neighbour list every node id
\* appears at most once, in every state of an index built by Insert.
NoDuplicateNeighbors ==
    \A id \in StoredIds : \A l \in 0..LevelOf(id) : Distinct(NeighborsAt(Nodes, id, l))

\* Every node of a full store lists two nodes at layer 0.
TwoNeighborsEach ==
    /\ Idle
    /\ Len(Nodes) = MaxNodes
    /\ \A id \in StoredIds : Len(NeighborsAt(Nodes, id, 0)) = 2

\* C14 - Layer membership of edges: every entry of a neighbour list of
\* layer l is a stored node whose level is at least l, and a node has lists
\* for the layers 0..Level and no others, in every state of an index built
\* by Insert.
LayerMembership ==
    \A id \in StoredIds :
        /\ Len(NodeAt(Nodes, id).Neighbors) = LevelOf(id) + 1
        /\ \A l \in 0..LevelOf(id) :
               \A e \in ListOf(id, l) : e \in StoredIds /\ LevelOf(e) >= l

\* A node of level 0 was inserted below an entry point of level 1 that has
\* an edge at layer 1, and was linked at layer 0.
LowNodeBelowUpperEdge ==
    /\ Idle
    /\ lastInsert.kind = "insert"
    /\ lastInsert.level = 0
    /\ lastInsert.L = 1
    /\ ListOf(lastInsert.q, 0) # {}
    /\ ListOf(EntryPoint, 1) # {}

\* What the last call of Insert was given, and what it left.
InsertCalled == lastCall.kind = "insert"

Unchanged == Nodes = lastCall.before.Nodes /\ EntryPoint = lastCall.before.EntryPoint

IdStored(h, id) == \E i \in 1..Len(h.Nodes) : h.Nodes[i].ID = id

\* C15 - Unique ids: an Insert whose id is already stored is rejected and
\* leaves the index unchanged, and no two stored nodes carry the same id.
UniqueIds ==
    /\ (InsertCalled /\ IdStored(lastCall.before, lastCall.id)) =>
           (lastCall.status # "ok" /\ Unchanged)
    /\ \A i, j \in 1..Len(Nodes) : Nodes[i].ID = Nodes[j].ID => i = j

\* An Insert was called with an id that a linked node of the store carries.
DuplicateIdCalled ==
    /\ InsertCalled
    /\ Len(lastCall.before.Nodes) >= 2
    /\ IdStored(lastCall.before, lastCall.id)

\* The dimension the first Insert fixed.
DimensionOf(h) == Len(h.Nodes[1].Vector)

WrongDimension ==
    /\ InsertCalled
    /\ Len(lastCall.before.Nodes) > 0
    /\ Len(lastCall.vector) # 0
    /\ Len(lastCall.vector) # DimensionOf(lastCall.before)

\* C16 - Dimension check on insert: once the first Insert has fixed the
\* dimension, an Insert with a vector of another length is rejected and
\* leaves the node store, the neighbour lists and the entry point unchanged.
DimensionChecked == WrongDimension => (lastCall.status # "ok" /\ Unchanged)

\* An Insert was called with a vector longer than the stored ones on an
\* index of linked nodes.
LongVectorCalled == WrongDimension /\ Len(lastCall.before.Nodes) >= 2

\* C17 - An Insert with a zero-length vector is rejected before any state
\* change: the node store, the neighbour lists, the entry point and the
\* visit marks are as before the call, no level was drawn and the write
\* lock is not held.
EmptyVectorRejected ==
    (InsertCalled /\ Len(lastCall.vector) = 0) =>
        /\ lastCall.status = "panic: vector cannot be empty"
        /\ CurrentIndex = lastCall.before
        /\ ~lastCall.drewLevel
        /\ ~mutex.writer

\* An Insert with an empty vector was called on an index of linked nodes.
EmptyVectorCalled ==
    /\ InsertCalled
    /\ Len(lastCall.vector) = 0
    /\ Len(Nodes) >= 2
    /\ NeighborsAt(Nodes, 0, 0) # <<>>

\* The Insert failed after it had appended the new node.
FailedAfterAppend ==
    /\ InsertCalled
    /\ lastCall.status = "panic: index out of range"

\* The node the last Insert appended has its links.
FullyLinked ==
    /\ Len(Nodes) = Len(lastCall.before.Nodes) + 1
    /\ NeighborsAt(Nodes, Len(Nodes) - 1, 0) # <<>>

\* C18 - Insert is all-or-nothing on failure: after an Insert that failed
\* once the node was appended, the write lock is released and the index is
\* as before the call or holds the fully linked node.
AllOrNothing == FailedAfterAppend => (~mutex.writer /\ (Unchanged \/ FullyLinked))

\* An Insert failed after the append and the write lock is free again.
FailedAndUnlocked == FailedAfterAppend /\ ~mutex.writer /\ Len(Nodes) >= 2

\* C19 - Vectors are copied on insert: a write of the caller to the slice it
\* passed to Insert leaves the vector stored in the node as it was.
VectorsCopied ==
    lastCall.kind = "write" => NodeAt(Nodes, lastCall.slot).Vector = lastCall.stored

\* The caller wrote to the slice it passed for a node that other nodes list.
CallerWroteLinked ==
    /\ lastCall.kind = "write"
    /\ NeighborsAt(Nodes, lastCall.slot, 0) # <<>>

SameNode(a, b) == a.ID = b.ID /\ a.Vector = b.Vector /\ a.Level = b.Level

\* C20 - Append-only store: every step keeps the id, vector and level of
\* each node already stored and keeps or extends the store by one node, and
\* an Insert that returns leaves the store exactly one node longer than the
\* Insert before it did.
AppendOnly ==
    [][ /\ Len(Nodes') \in {Len(Nodes), Len(Nodes) + 1}
        /\ \A i \in 1..Len(Nodes) : SameNode(Nodes'[i], Nodes[i])
        /\ committed' # committed =>
               Len(committed'.Nodes) = Len(committed.Nodes) + 1 ]_vars

\* The store is full and the lists of the first node are no longer the ones
\* it was stored with.
StoreFilled ==
    /\ Idle
    /\ Len(committed.Nodes) = MaxNodes
    /\ lastInsert.kind = "insert"
    /\ lastInsert.q = MaxNodes - 1
    /\ ListOf(0, 0) # {}

\* C21 - Level range: on every index NewHNSW returns and for every value of
\* the random source, RandomLevel returns a level l with 0 <= l <= MaxLevel.
LevelInRange ==
    lastCall.kind = "RandomLevel" =>
        (0 <= lastCall.level /\ lastCall.level <= lastCall.h.MaxLevel)

\* RandomLevel was called on an index with M = 1, or with a random value of 0.
LevelFromInfinity ==
    /\ lastCall.kind = "RandomLevel"
    /\ (lastCall.h.M = 1 \/ lastCall.r.zero)

\* With M >= 2 and a random value above 0 the level is in range.
FiniteLevelInRange ==
    (lastCall.kind = "RandomLevel" /\ lastCall.h.M >= 2 /\ ~lastCall.r.zero) =>
        (0 <= lastCall.level /\ lastCall.level <= lastCall.h.MaxLevel)

Invalid(cfg) ==
    \/ cfg.M <= 0
    \/ cfg.Mmax <= 0
    \/ cfg.Mmax0 <= 0
    \/ cfg.EfConstruction <= 0
    \/ cfg.MaxLevel <= 0
    \/ cfg.DistanceFunc = "nil"

Carries(h, cfg) ==
    /\ h.M = cfg.M
    /\ h.Mmax = cfg.Mmax
    /\ h.Mmax0 = cfg.Mmax0
    /\ h.EfConstruction = cfg.EfConstruction
    /\ h.MaxLevel = cfg.MaxLevel
    /\ h.DistanceFunc = cfg.DistanceFunc

\* C22 - Configuration validation: NewHNSW returns an error and no index
\* exactly when one of M, Mmax, Mmax0, EfConstruction, MaxLevel is <= 0 or
\* DistanceFunc is nil; otherwise it returns an index without nodes and
\* without entry point that carries the configured values.
ConfigValidated ==
    lastCall.kind = "NewHNSW" =>
        /\ lastCall.err # "nil" <=> Invalid(lastCall.cfg)
        /\ lastCall.err # "nil" => lastCall.h = NilIndex
        /\ lastCall.err = "nil" =>
               /\ lastCall.h.Nodes = <<>>
               /\ lastCall.h.EntryPoint = NoNode
               /\ Carries(lastCall.h, lastCall.cfg)

\* NewHNSW was called with a configuration whose only fault is MaxLevel = 0.
OnlyMaxLevelInvalid ==
    /\ lastCall.kind = "NewHNSW"
    /\ lastCall.cfg.MaxLevel = 0
    /\ ~Invalid([lastCall.cfg EXCEPT !.MaxLevel = 1])
    /\ lastCall.err # "nil"

\* C23 - No isolated node at layer 0: when no Insert is running and the
\* index holds at least two nodes, every stored node has at least one
\* neighbour at layer 0.
NoIsolatedNode ==
    (Idle /\ Len(Nodes) >= 2) =>
        \A slot \in 0..(Len(Nodes) - 1) : NeighborsAt(Nodes, slot, 0) # <<>>

\* An Insert has returned whose pruning left a node that no other node
\* lists at layer 0.
PrunedNodeUnlisted ==
    /\ Idle
    /\ lastInsert.kind = "insert"
    /\ lastInsert.pruned
    /\ \E id \in StoredIds : \A other \in StoredIds : id \notin ListOf(other, 0)

\* The nodes present at layer l.
PresentAt(l) == {id \in StoredIds : LevelOf(id) >= l}

IsSmall(P, l) == Cardinality(P) <= MaxConnFor(l) + 1 /\ Cardinality(P) <= EfConstruction

IsComplete(P, l) == \A id \in P : ListOf(id, l) = P \ {id}

FurthestReturned(query, ans) ==
    DistanceFunc(query, NodeAt(Nodes, ans.ids[Len(ans.ids)]).Vector)

BothAnswered ==
    /\ lastCall.kind = "ef"
    /\ lastCall.first.status = "ok"
    /\ lastCall.second.status = "ok"
    /\ Len(lastCall.first.ids) > 0
    /\ Len(lastCall.second.ids) > 0

CacheTransparent ==
    lastCall.kind = "cache" =>
        lastCall.dist = DistanceFunc(lastCall.query, lastCall.vector)

\* A call for node id 0 returned the distance an earlier call had stored for
\* another query or another vector under that id.
StaleDistanceReturned ==
    /\ lastCall.kind = "cache"
    /\ lastCall.id = 0
    /\ lastCall.dist = cacheArrays[globalDistanceCache][1]
    /\ lastCall.dist # DistanceFunc(lastCall.query, lastCall.vector)

\* The calls that have returned.
CacheReturned == {t \in Threads : cacheCalls[t].pc = "done"}

\* C27 - The distance cache is safe under concurrency: when goroutines call
\* computeAndCacheDistance at the same time, every call returns the correct
\* distance, no write lands outside the current cache array, and no entry
\* written by one call is lost because another call replaced the array.
CacheSafeWhenConcurrent ==
    \A t \in CacheReturned :
        /\ cacheCalls[t].dist = DistanceFunc(cacheCalls[t].query, cacheCalls[t].vector)
        /\ ~cacheCalls[t].outside
        /\ cacheCalls[t].wrote =>
               cacheArrays[globalDistanceCache][cacheCalls[t].id + 1] >= 0

\* Every call returns the distance of its query to its node.
CacheReturnsDistance ==
    \A t \in CacheReturned :
        cacheCalls[t].dist = DistanceFunc(cacheCalls[t].query, cacheCalls[t].vector)

\* Both calls have returned the right distance, one of them stored its
\* distance in an array that had been replaced, and the array in use has no
\* entry for its node.
CacheEntryLost ==
    /\ CacheReturned = Threads
    /\ CacheReturnsDistance
    /\ \E t \in Threads :
           /\ cacheCalls[t].wrote
           /\ cacheCalls[t].outside
           /\ cacheArrays[globalDistanceCache][cacheCalls[t].id + 1] < 0

\* The items a heap returns when it is popped until it is empty, in order.
RECURSIVE PoppedFromMin(_)
PoppedFromMin(h) ==
    IF Len(h) = 0 THEN <<>> ELSE <<MinHeapPop(h).item>> \o PoppedFromMin(MinHeapPop(h).heap)

RECURSIVE PoppedFromMax(_)
PoppedFromMax(h) ==
    IF Len(h) = 0 THEN <<>> ELSE <<MaxHeapPop(h).item>> \o PoppedFromMax(MaxHeapPop(h).heap)

\* How many times an item occurs in a sequence.
Occurrences(seq, n) == Cardinality({i \in 1..Len(seq) : seq[i] = n})

RECURSIVE SumOver(_, _)
SumOver(f, S) ==
    IF S = {} THEN 0 ELSE LET n == CHOOSE x \in S : TRUE IN f[n] + SumOver(f, S \ {n})

\* The items pushed on a heap and not yet popped.
Held(heap) == {n \in Items : pushed[heap][n] > 0}

\* C28 - Priority-queue order: after any interleaving of Push and Pop calls,
\* MinHeap.Pop returns an item whose distance is minimal among the items held
\* and MaxHeap.Pop one whose distance is maximal; popping until empty returns
\* exactly the multiset of items pushed and not yet popped, and Len equals
\* that multiset's size.
PriorityQueueOrder ==
    /\ (lastCall.kind = "pop" /\ lastCall.heap = "min") =>
          IF lastCall.nil THEN Held("min") = {}
          ELSE \A n \in Held("min") : lastCall.item.Dist <= n.Dist
    /\ (lastCall.kind = "pop" /\ lastCall.heap = "max") =>
          IF lastCall.nil THEN Held("max") = {}
          ELSE \A n \in Held("max") : lastCall.item.Dist >= n.Dist
    /\ \A n \in Items : Occurrences(PoppedFromMin(minHeap), n) = pushed["min"][n]
    /\ \A n \in Items : Occurrences(PoppedFromMax(maxHeap), n) = pushed["max"][n]
    /\ Len(minHeap) = SumOver(pushed["min"], Items)
    /\ Len(maxHeap) = SumOver(pushed["max"], Items)

\* A Pop took the root of a heap of MaxHeld items, another of them at the
\* popped item's distance, and the items left are still held.
PoppedAmongTies ==
    /\ lastCall.kind = "pop"
    /\ ~lastCall.nil
    /\ Len(minHeap) = MaxHeld - 1 \/ Len(maxHeap) = MaxHeld - 1
    /\ \E n \in Held(lastCall.heap) : n.Dist = lastCall.item.Dist /\ n # lastCall.item
    /\ \E n \in Held(lastCall.heap) : n.Dist # lastCall.item.Dist

\* C29 - Reset on acquire: every heap returned by HeapPoolManager.GetMinHeap
\* or GetMaxHeap is empty (Len = 0), whatever items it held when it was put
\* back and however Get and Put calls are interleaved.
ResetOnAcquire ==
    lastCall.kind = "get" => Len(lastCall.returned) = 0

\* Get handed out a heap that had been put back holding MaxPooledLen items.
PooledHeapHandedOut ==
    /\ lastCall.kind = "get"
    /\ lastCall.held = MaxPooledLen

\* The nodes the layer-0 search of the last KNN_Search marked as visited.
VisitedByLastQuery == {id \in StoredIds : visited[id] = visitStamp}

\* C30 - Beam search keeps the best of what it visited: searchLayer admits a
\* neighbour exactly when |W| < ef or it is strictly closer to the query than
\* the furthest member of W at that moment, so on return no node that the
\* search visited and left out of its result is strictly closer to the query
\* than a node in the result.
BeamKeepsBest ==
    (lastQuery.kind = "query" /\ lastQuery.variant = "slice") =>
        \A v \in VisitedByLastQuery \ Range(lastQuery.W) : \A w \in Range(lastQuery.W) :
            DistanceFunc(lastQuery.query, NodeAt(Nodes, v).Vector)
                >= DistanceFunc(lastQuery.query, NodeAt(Nodes, w).Vector)

\* A search with ef = 2 returned two nodes and had visited a third that is
\* strictly closer to the query than the furthest node it returned.
CloserNodeLeftOut ==
    /\ lastQuery.kind = "query"
    /\ lastQuery.variant = "slice"
    /\ lastQuery.ef = 2
    /\ Len(lastQuery.W) = 2
    /\ \E v \in VisitedByLastQuery \ Range(lastQuery.W) :
           DistanceFunc(lastQuery.query, NodeAt(Nodes, v).Vector)
               < DistanceFunc(lastQuery.query, NodeAt(Nodes, lastQuery.W[2]).Vector)


\* The distance between two stored nodes.
DistanceBetween(a, b) == DistanceFunc(NodeAt(Nodes, a).Vector, NodeAt(Nodes, b).Vector)

\* C31 - Back-link pruning keeps the closest: when a phase-2 iteration of
\* Insert links the new node q to a selected neighbour e whose list at layer
\* lc is full, e's list becomes exactly cap distinct nodes taken from its
\* previous list plus q, and every node dropped is at least as far from e as
\* every node kept.
PruningKeepsClosest ==
    [][ \A f \in inserts :
          (f.pc = "connect" /\ Nodes' # Nodes) =>
            \A e \in Range(NeighborsAt(Nodes', f.q, f.lc)) :
              (/\ f.lc <= LevelOf(e)
               /\ Len(NeighborsAt(Nodes, e, f.lc)) + 1 > MaxConnFor(f.lc)) =>
                 LET offered == Range(NeighborsAt(Nodes, e, f.lc)) \cup {f.q}
                     kept == NeighborsAt(Nodes', e, f.lc)
                 IN  /\ Len(kept) = MaxConnFor(f.lc)
                     /\ Cardinality(Range(kept)) = Len(kept)
                     /\ Range(kept) \subseteq offered
                     /\ \A d \in offered \ Range(kept) : \A k \in Range(kept) :
                            DistanceBetween(e, d) >= DistanceBetween(e, k) ]_vars

\* An Insert that pruned has completed: a full list holds the new node, and a
\* node it no longer holds still lists its owner and is strictly further from
\* the owner than the new node.
PrunedForNewNode ==
    /\ Idle
    /\ lastInsert.kind = "insert"
    /\ lastInsert.pruned
    /\ \E e \in StoredIds \ {lastInsert.q} :
          /\ lastInsert.q \in ListOf(e, 0)
          /\ Len(NeighborsAt(Nodes, e, 0)) = Mmax0
          /\ \E m \in StoredIds \ {e, lastInsert.q} :
                /\ e \in ListOf(m, 0)
                /\ m \notin ListOf(e, 0)
                /\ DistanceBetween(e, m) > DistanceBetween(e, lastInsert.q)


\* C32 - Neighbour selection: at each layer lc of the connect phase the new
\* node's list is set to exactly min(|W|, cap) distinct members of the beam
\* result W, none further from the new node than a member of W left out, with
\* cap = Mmax0 at layer 0 and Mmax above it.
NeighborsAreClosestOfBeam ==
    [][ \A f \in inserts :
          (f.pc = "connect" /\ inserts' # inserts) =>
            \E W \in {searchLayer(Nodes, visitStamp, visited, NodeAt(Nodes, f.q).Vector,
                                  f.ep, EfConstruction, f.lc).results} :
              LET chosen == NeighborsAt(Nodes', f.q, f.lc)
                  cap == IF f.lc = 0 THEN Mmax0 ELSE Mmax
              IN  /\ Len(chosen) = Min2(Len(W), cap)
                  /\ Cardinality(Range(chosen)) = Len(chosen)
                  /\ Range(chosen) \subseteq Range(W)
                  /\ \A d \in Range(W) \ Range(chosen) : \A k \in Range(chosen) :
                         DistanceBetween(f.q, d) >= DistanceBetween(f.q, k) ]_vars

\* The third node of level 1 has been inserted: the beam at layer 1 held the
\* two others, and the new node lists only the strictly closer one there.
CloserOfTwoSelected ==
    /\ Idle
    /\ Len(Nodes) = 3
    /\ lastInsert.kind = "insert"
    /\ lastInsert.q = 2
    /\ \A n \in StoredIds : LevelOf(n) = 1
    /\ Len(NeighborsAt(Nodes, 2, 1)) = Mmax
    /\ \E k \in ListOf(2, 1) : \E m \in StoredIds \ {2, k} :
          DistanceBetween(2, m) > DistanceBetween(2, k)


\* The distance from a query to a stored node.
DistanceTo(query, id) == DistanceFunc(query, NodeAt(Nodes, id).Vector)

\* The node greedySearchLayer returns on the current graph.
GreedyResult(query, entry, l) == greedySearchLayer(Nodes, query, entry, l)

\* C33 - Greedy walk returns a local minimum: for every layer, entry node and
\* query, greedySearchLayer returns a node none of whose neighbours at that
\* layer is strictly closer to the query than it is, and the returned node is
\* at least as close to the query as the entry node.
GreedyLocalMinimum ==
    \A query \in Vectors : \A entry \in StoredIds : \A l \in 0..MaxLevel :
        \E r \in {GreedyResult(query, entry, l)} :
            /\ r \in StoredIds
            /\ \A n \in Range(LayerList(NodeAt(Nodes, r), l)) :
                   DistanceTo(query, n) >= DistanceTo(query, r)
            /\ DistanceTo(query, r) <= DistanceTo(query, entry)

\* On the current layer-1 graph a greedy walk leaves its entry node and stops
\* at a node with a neighbour, while a node of that layer it never reaches is
\* strictly closer to the query.
GreedyStoppedShort ==
    /\ Idle
    /\ \E query \in Vectors : \E entry \in PresentAt(1) :
          \E r \in {GreedyResult(query, entry, 1)} :
              /\ r # entry
              /\ ListOf(r, 1) # {}
              /\ \E m \in PresentAt(1) : DistanceTo(query, m) < DistanceTo(query, r)


\* What searchLayer returns on the current graph.
BeamResult(query, entry, ef, l) ==
    searchLayer(Nodes, visitStamp, visited, query, entry, ef, l).results

\* C34 - Beam result size: for every ef >= 1, layer, entry node and query,
\* searchLayer returns at least 1 and at most ef node ids, all distinct, and
\* W holds at most ef nodes at the end of every loop iteration.
BeamResultSize ==
    (nQueries = 0 /\ mutex.readers = 0) =>
      \A query \in Vectors : \A entry \in StoredIds : \A l \in 0..MaxLevel :
        \A ef \in 1..MaxEfTried :
          /\ \E W \in {BeamResult(query, entry, ef, l)} :
                /\ Len(W) >= 1
                /\ Len(W) <= ef
                /\ Cardinality(Range(W)) = Len(W)
                /\ Range(W) \subseteq StoredIds
          /\ \A size \in searchLayerSizes(Nodes, visitStamp, visited, query, entry, ef, l) :
                size <= ef

\* On the full store a search with ef = 2 at layer 0 returns two ids and its
\* entry node is not one of them: the beam was full and the entry was evicted.
EntryEvictedFromBeam ==
    /\ Idle
    /\ Len(Nodes) = MaxNodes
    /\ \E query \in Vectors : \E entry \in StoredIds :
          \E W \in {BeamResult(query, entry, 2, 0)} :
              /\ Len(W) = 2
              /\ entry \notin Range(W)


\* C35 - Frame of an Insert: a step changes a neighbour list only during the
\* connect phase of an Insert of node q with level l into an index whose entry
\* point has level L, only at the layer lc being connected with
\* 0 <= lc <= min(L, l), and only for q and the neighbours selected for q at
\* lc; a selected neighbour's new list is what back-linking q to that
\* neighbour alone gives, whatever happens to the other neighbours.
InsertFrame ==
    [][ \A n \in StoredIds : \A lc \in 0..LevelOf(n) :
          NeighborsAt(Nodes', n, lc) # NeighborsAt(Nodes, n, lc) =>
            \E f \in inserts :
              /\ f.pc = "connect"
              /\ lc = f.lc
              /\ lc <= Min2(f.L, f.level)
              /\ \/ n = f.q
                 \/ /\ n \in Range(NeighborsAt(Nodes', f.q, lc))
                    /\ NeighborsAt(Nodes', n, lc) =
                           BackLink(Nodes, f.q, n, lc, MaxConnFor(lc)) ]_vars

\* The fourth node, of level 0, has been inserted under an entry point of
\* level 1: it selected two of the three nodes, whose lists at layer 0 were
\* both full, and the third node still has its two neighbours.
TwoPrunedThirdUntouched ==
    /\ Idle
    /\ Len(Nodes) = 4
    /\ lastInsert.kind = "insert"
    /\ lastInsert.q = 3
    /\ lastInsert.level = 0
    /\ lastInsert.L = 1
    /\ lastInsert.pruned
    /\ Cardinality(ListOf(3, 0)) = 2
    /\ \E n \in StoredIds \ ({3} \cup ListOf(3, 0)) :
          /\ Cardinality(ListOf(n, 0)) = 2
          /\ LevelOf(n) = 1
          /\ ListOf(n, 1) # {}

NoUseAfterRelease ==
    pooledSearch.pc \in {"pop", "scan", "drain"} =>
        /\ \A k \in 1..Len(pooledSearch.candidates) :
              nodeHeapPool.free[pooledSearch.candidates[k].Ptr] = 0
        /\ \A k \in 1..Len(pooledSearch.nearest) :
              nodeHeapPool.free[pooledSearch.nearest[k].Ptr] = 0

\* The first searchLayer call on an index of level-0 nodes, started at the
\* entry point as KNN_Search starts it, has panicked: it popped from the
\* candidate heap an item it had put to the pool, and read the cleared id.
ReleasedItemPopped ==
    /\ pooledSearch.pc = "failed"
    /\ pooledSearch.calls = 1
    /\ pooledSearch.entry = EntryPoint
    /\ \A n \in StoredIds : LevelOf(n) = 0
    /\ pooledSearch.held = {}
    /\ \E ptr \in 1..MaxItems :
          /\ pooledSearch.puts[ptr] >= 1
          /\ nodeHeapPool.free[ptr] >= 1


\* C38 - Ids resolve to their nodes: after any sequence of Insert calls with
\* the ids 0..n-1, in whatever order the calls got the write lock, the node
\* stored at slot i of the node store carries id i.
IdsResolve ==
    \A i \in 1..Len(Nodes) : Nodes[i].ID = i - 1

\* Two calls with the ids 0 and 1 have returned, and the call with id 1 got
\* the lock first.
LaterIdLockedFirst ==
    /\ InsertCalled
    /\ lastCall.status = "ok"
    /\ lastCall.id = 0
    /\ Len(Nodes) = 2
    /\ Nodes[1].ID = 1
    /\ Nodes[2].ID = 0

\* A step of greedySearchLayer that stays in its loop at the same layer: a move.
GreedyMoves ==
    /\ layerCall.pc = "greedy"
    /\ layerCall'.pc = "greedy"
    /\ layerCall'.lc = layerCall.lc

\* Every id entered the candidate heap of the searchLayer call at most once.
PushedAtMostOnce ==
    layerCall.pc # "idle" => \A id \in 0..(MaxNodes - 1) : layerCall.pushes[id] <= 1

LayerCallRuns == layerCall.pc \notin {"idle", "done"}

LayerCallReturned ==
    /\ layerCall.pc = "done"
    /\ ~mutex.writer
    /\ mutex.readers = 0

\* C39 - Layer searches terminate: on every finite graph, cycles and nodes at
\* equal distance from the query included, every move of greedySearchLayer
\* strictly decreases the best distance, every node enters the candidate heap
\* of a searchLayer call at most once, and every Insert and KNN_Search that
\* has taken its lock eventually returns with the lock released.
LayerSearchesTerminate ==
    /\ [][GreedyMoves => layerCall'.bestDist < layerCall.bestDist]_vars
    /\ []PushedAtMostOnce
    /\ (LayerCallRuns ~> LayerCallReturned)

\* A KNN_Search has returned and released its lock on a graph where its
\* greedy descent moved, and its beam search scanned two nodes that list each
\* other and that lie at the same distance from the query.
TiedCycleSearched ==
    /\ LayerCallReturned
    /\ layerCall.kind = "KNN_Search"
    /\ layerCall.status = "ok"
    /\ layerCall.moves > 0
    /\ \E a, b \in layerCall.expanded :
           /\ a # b
           /\ a \in Range(NeighborsAt(Nodes, b, 0))
           /\ b \in Range(NeighborsAt(Nodes, a, 0))
           /\ DistanceFunc(layerCall.query, NodeAt(Nodes, a).Vector)
                = DistanceFunc(layerCall.query, NodeAt(Nodes, b).Vector)

====
